---- MODULE Spec2Model ----
(***************************************************************************)
(* chess-manager-back: tournament lifecycle (TournamentService), the       *)
(* lifecycle scheduler (TournamentSchedulerService), the Swiss pairing of  *)
(* generateMatches and the match operations of MatchService, over the      *)
(* persistent store (tournaments, inscriptions, matches).                  *)
(*                                                                         *)
(* Dates are integers on the clock `now`.  A nullable column is encoded by *)
(* the value JavaScript treats as absent: 0 for the numeric columns        *)
(* (totalRounds, maxParticipants, createdBy, description) and NoDate for   *)
(* registrationDeadline.  Request bodies (createTournament's data and      *)
(* updateTournament's patch) are records whose DOMAIN is the set of keys   *)
(* the caller supplied.                                                    *)
(***************************************************************************)
EXTENDS Integers, Sequences, FiniteSets, TLC

\* ---- bounds of the model ----
MaxTournaments == 2
MaxUsers == 4
MaxTime == 2
MaxSweeps == 2
MaxMatches == 4
MaxRound == 2
MaxCalls == 2
MaxEloWrites == 2
MaxInscriptions == 3

\* ---- program constants ----
MinParticipantsToStart == 4
MinParticipantsToPair == 2
CancelNotice == 1

NoDate == 0 - 1

TournamentIds == 1..MaxTournaments
UserIds == 1..MaxUsers
Dates == 0..MaxTime
SweepIds == 1..MaxSweeps
MatchIds == 1..MaxMatches
CallIds == 1..MaxCalls

Status == {"upcoming", "ongoing", "finished", "cancelled"}
Formats == {"swiss", "round_robin", "elimination"}
MatchResults == {"not_started", "ongoing", "white_wins", "black_wins", "draw"}
TerminalResults == {"white_wins", "black_wins", "draw"}

VARIABLES
  now,               \* wall clock (new Date())
  tournaments,       \* table tournaments: id -> row (exists = FALSE: no row)
  nextTournamentId,  \* auto-increment of tournaments.id
  inscriptions,      \* table inscriptions, in registrationDate order
  matches,           \* table matches: a set of rows
  nextMatchId,       \* auto-increment of matches.id
  users,             \* table users: id -> row
  intervalId,        \* TournamentSchedulerService.intervalId (0: null)
  armedIntervals,    \* number of intervals armed in the timer table
  sweeps,            \* executions of checkTournamentStates: slot -> frame
  matchCalls,        \* MatchService calls in flight between their awaits: slot -> frame
  eloApplied,        \* per match, how many times its rating changes were written
  inscriptionCalls,  \* createInscription calls between their checks and their insert
  nextInscriptionId, \* auto-increment of inscriptions.id
  generateCalls,     \* generateMatches calls between their reads and their inserts
  finishedSoFar,     \* history: the tournaments seen finished, and their matches
  lastOp             \* the call that made the last step, and its outcome

vars == <<now, tournaments, nextTournamentId, inscriptions, matches, nextMatchId,
          users, intervalId, armedIntervals, sweeps, matchCalls, eloApplied,
          inscriptionCalls, nextInscriptionId, generateCalls, finishedSoFar, lastOp>>

dbVars == <<tournaments, nextTournamentId, inscriptions, matches, nextMatchId, users>>
schedVars == <<intervalId, armedIntervals, sweeps>>
callVars == <<matchCalls, eloApplied, generateCalls>>
inscVars == <<inscriptionCalls, nextInscriptionId>>

\* ---- rows ----
NoTournament ==
  [exists |-> FALSE, status |-> "upcoming", startDate |-> 0, endDate |-> 0,
   registrationDeadline |-> NoDate, maxParticipants |-> 0,
   tournamentFormat |-> "swiss", totalRounds |-> 0, description |-> 0,
   createdBy |-> 0]

TournamentColumns ==
  {"status", "startDate", "endDate", "registrationDeadline", "maxParticipants",
   "tournamentFormat", "totalRounds", "description", "createdBy"}

\* lastOp: the call, the row (or sweep slot) it was made on, whether it succeeded
\* and, for a step of a sweep, the tournament the step handled (0: none)
Op(name, id, ok) == [op |-> name, id |-> id, ok |-> ok, tournament |-> 0]
SweepOp(name, s, t, ok) == [op |-> name, id |-> s, ok |-> ok, tournament |-> t]

\* a slot of matchCalls with no call in it
IdleCall ==
  [pc |-> "idle", op |-> "none", matchId |-> 0, result |-> "not_started",
   whitePlayerId |-> 0, blackPlayerId |-> 0]

\* a slot of generateCalls with no call in it
IdleGenerateCall == [pc |-> "idle", tournamentId |-> 0, round |-> 0, pairs |-> <<>>]

\* a slot of inscriptionCalls with no call in it
IdleInscriptionCall == [pc |-> "idle", userId |-> 0, tournamentId |-> 0]

\* the finished tournaments of the rows given and the matches of ms they have
FinishedIn(rows, ms) ==
  LET finished == {t \in TournamentIds : rows[t].exists /\ rows[t].status = "finished"}
  IN [tournaments |-> finished,
      matches |-> {m.id : m \in {x \in ms : x.tournamentId \in finished}}]

\* history: every step adds the tournaments that are finished after it, and
\* the matches they then have, to those seen finished so far
RecordFinished ==
  finishedSoFar' =
    [tournaments |-> finishedSoFar.tournaments
                       \cup FinishedIn(tournaments', matches').tournaments,
     matches |-> finishedSoFar.matches \cup FinishedIn(tournaments', matches').matches]

\* ---- repositories ----
\* TournamentRepository.findById / findByIdSimple
TournamentExists(t) == t \in TournamentIds /\ tournaments[t].exists

\* TournamentRepository.update: writes the given columns of row id; no row, no effect
RepoUpdateTournament(t, data) ==
  IF TournamentExists(t)
  THEN [tournaments EXCEPT
          ![t] = [c \in DOMAIN tournaments[t] |->
                    IF c \in DOMAIN data /\ c \in TournamentColumns
                    THEN data[c] ELSE tournaments[t][c]]]
  ELSE tournaments

\* TournamentRepository.findByStatus: the ids of the rows with that status
FindByStatus(status) ==
  {t \in TournamentIds : tournaments[t].exists /\ tournaments[t].status = status}

\* InscriptionRepository.findByTournamentId: userIds in registrationDate order
RECURSIVE FilterTournament(_, _)
FilterTournament(seq, t) ==
  IF seq = <<>> THEN <<>>
  ELSE IF Head(seq).tournamentId = t
       THEN <<Head(seq).userId>> \o FilterTournament(Tail(seq), t)
       ELSE FilterTournament(Tail(seq), t)

InscribedPlayers(t) == FilterTournament(inscriptions, t)

\* InscriptionRepository.countByTournamentId
CountInscriptions(t) == Len(InscribedPlayers(t))

\* MatchRepository.findByTournamentId
MatchesOf(t) == {m \in matches : m.tournamentId = t}

\* MatchRepository.getMaxRound / Math.max(...rounds): the greatest round of the
\* matches, 0 when there is none
MaxRoundOf(ms) ==
  IF ms = {} THEN 0
  ELSE (CHOOSE m \in ms : \A x \in ms : x.round <= m.round).round

\* UserRepository.findById: active users only
UserExists(u) == u \in UserIds /\ ~ users[u].isDeleted

\* InscriptionRepository.findByUserAndTournament
IsInscribed(u, t) ==
  \E i \in 1..Len(inscriptions) :
     inscriptions[i].userId = u /\ inscriptions[i].tournamentId = t

\* ---- TournamentService ----
\* createTournament: the validation of the request body
CreateTournamentValid(data) ==
  /\ {"name", "startDate", "endDate", "location"} \subseteq DOMAIN data
  /\ data.startDate < data.endDate
  /\ data.startDate >= now

\* createTournament: the row tournamentRepository.create stores
NewTournament(data) ==
  [c \in DOMAIN NoTournament |->
     IF c = "exists" THEN TRUE
     ELSE IF c = "status"
          THEN (IF "status" \in DOMAIN data THEN data.status ELSE "upcoming")
     ELSE IF c = "tournamentFormat"
          THEN (IF "tournamentFormat" \in DOMAIN data
                THEN data.tournamentFormat ELSE "swiss")
     ELSE IF c \in DOMAIN data THEN data[c] ELSE NoTournament[c]]

createTournament(data) ==
  /\ nextTournamentId <= MaxTournaments
  /\ IF CreateTournamentValid(data)
     THEN /\ tournaments' = [tournaments EXCEPT
                               ![nextTournamentId] = NewTournament(data)]
          /\ nextTournamentId' = nextTournamentId + 1
          /\ lastOp' = Op("createTournament", nextTournamentId, TRUE)
     ELSE /\ UNCHANGED <<tournaments, nextTournamentId>>
          /\ lastOp' = Op("createTournament", 0, FALSE)
  /\ UNCHANGED <<callVars, inscVars, now, inscriptions, matches, nextMatchId, users, schedVars>>
  /\ RecordFinished

\* updateTournament: the restrictions while the tournament is ongoing
OngoingPatchAllowed(row, patch) ==
  /\ DOMAIN patch \subseteq {"description", "endDate"}
  /\ "endDate" \in DOMAIN patch => patch.endDate >= row.endDate

\* updateTournament: the restrictions while upcoming with participants
UpcomingPatchAllowed(row, patch, inscriptionCount) ==
  inscriptionCount > 0 =>
    /\ ~ ("tournamentFormat" \in DOMAIN patch
            /\ patch.tournamentFormat # row.tournamentFormat)
    /\ ~ ("maxParticipants" \in DOMAIN patch /\ patch.maxParticipants # 0
            /\ patch.maxParticipants < inscriptionCount)

\* updateTournament: the validation of the resulting dates
PatchDatesValid(row, patch) ==
  LET startDate == IF "startDate" \in DOMAIN patch THEN patch.startDate
                   ELSE row.startDate
      endDate == IF "endDate" \in DOMAIN patch THEN patch.endDate
                 ELSE row.endDate
      registrationDeadline ==
        IF "registrationDeadline" \in DOMAIN patch
             /\ patch.registrationDeadline # NoDate
        THEN patch.registrationDeadline ELSE row.registrationDeadline
  IN /\ startDate < endDate
     /\ registrationDeadline # NoDate => registrationDeadline < startDate

UpdateTournamentAccepted(t, patch) ==
  /\ TournamentExists(t)
  /\ tournaments[t].status \notin {"finished", "cancelled"}
  /\ tournaments[t].status = "ongoing" => OngoingPatchAllowed(tournaments[t], patch)
  /\ tournaments[t].status = "upcoming" =>
       UpcomingPatchAllowed(tournaments[t], patch, CountInscriptions(t))
  /\ PatchDatesValid(tournaments[t], patch)

updateTournament(t, patch) ==
  /\ IF UpdateTournamentAccepted(t, patch)
     THEN /\ tournaments' = RepoUpdateTournament(t, patch)
          /\ lastOp' = Op("updateTournament", t, TRUE)
     ELSE /\ UNCHANGED tournaments
          /\ lastOp' = Op("updateTournament", t, FALSE)
  /\ UNCHANGED <<callVars, inscVars, now, nextTournamentId, inscriptions, matches,
                 nextMatchId, users, schedVars>>
  /\ RecordFinished

\* updateTournamentStatus: the only check is that the row exists
UpdateStatusAccepted(t, status) == TournamentExists(t)

updateTournamentStatus(t, status) ==
  /\ IF UpdateStatusAccepted(t, status)
     THEN /\ tournaments' = RepoUpdateTournament(t, [status |-> status])
          /\ lastOp' = Op("updateTournamentStatus", t, TRUE)
     ELSE /\ UNCHANGED tournaments
          /\ lastOp' = Op("updateTournamentStatus", t, FALSE)
  /\ UNCHANGED <<callVars, inscVars, now, nextTournamentId, inscriptions, matches,
                 nextMatchId, users, schedVars>>
  /\ RecordFinished

\* InscriptionRepository.delete({ tournamentId }): the rows of the other tournaments
RECURSIVE InscriptionsWithout(_, _)
InscriptionsWithout(seq, t) ==
  IF seq = <<>> THEN <<>>
  ELSE IF Head(seq).tournamentId = t
       THEN InscriptionsWithout(Tail(seq), t)
       ELSE <<Head(seq)>> \o InscriptionsWithout(Tail(seq), t)

\* deleteTournament: the guards before the delete
DeleteTournamentAccepted(t) ==
  /\ TournamentExists(t)
  /\ tournaments[t].status # "ongoing"
  /\ tournaments[t].status # "finished"

\* deleteTournament whose delete removes the row of the tournament only
\* (TournamentRepository.delete)
deleteTournament_RowOnly(t) ==
  /\ IF DeleteTournamentAccepted(t)
     THEN /\ tournaments' = [tournaments EXCEPT ![t] = NoTournament]
          /\ UNCHANGED <<matches, inscriptions>>
          /\ lastOp' = Op("deleteTournament", t, TRUE)
     ELSE /\ UNCHANGED <<tournaments, matches, inscriptions>>
          /\ lastOp' = Op("deleteTournament", t, FALSE)
  /\ UNCHANGED <<callVars, inscVars, now, nextTournamentId, nextMatchId, users, schedVars>>
  /\ RecordFinished

\* deleteTournament: the guards, then deleteTournamentSafely, one transaction that
\* deletes the matches, the inscriptions and the row of the tournament
deleteTournament(t) ==
  /\ IF DeleteTournamentAccepted(t)
     THEN /\ matches' = {m \in matches : m.tournamentId # t}
          /\ inscriptions' = InscriptionsWithout(inscriptions, t)
          /\ tournaments' = [tournaments EXCEPT ![t] = NoTournament]
          /\ lastOp' = Op("deleteTournament", t, TRUE)
     ELSE /\ UNCHANGED <<tournaments, matches, inscriptions>>
          /\ lastOp' = Op("deleteTournament", t, FALSE)
  /\ UNCHANGED <<callVars, inscVars, now, nextTournamentId, nextMatchId, users, schedVars>>
  /\ RecordFinished

\* deleteTournament when the store rejects a statement of the transaction: the
\* transaction is rolled back and the call fails
deleteTournamentStoreFails(t) ==
  /\ DeleteTournamentAccepted(t)
  /\ lastOp' = Op("deleteTournamentStoreFails", t, FALSE)
  /\ UNCHANGED <<callVars, inscVars, now, dbVars, schedVars>>
  /\ RecordFinished

\* startTournament (manual) with the threshold its doc comment gives, 2
CanStartManually_AtLeastTwo(t) ==
  /\ TournamentExists(t)
  /\ tournaments[t].status = "upcoming"
  /\ ~ (CountInscriptions(t) < 2)

\* startTournament (manual): the guards before the write
CanStartManually(t) ==
  /\ TournamentExists(t)
  /\ tournaments[t].status = "upcoming"
  /\ ~ (CountInscriptions(t) < MinParticipantsToStart)

startTournament(t) ==
  /\ IF CanStartManually(t)
     THEN /\ tournaments' = RepoUpdateTournament(t, [status |-> "ongoing"])
          /\ lastOp' = Op("startTournament", t, TRUE)
     ELSE /\ UNCHANGED tournaments
          /\ lastOp' = Op("startTournament", t, FALSE)
  /\ UNCHANGED <<callVars, inscVars, now, nextTournamentId, inscriptions, matches,
                 nextMatchId, users, schedVars>>
  /\ RecordFinished

\* finishTournament (manual), were it to wait for the matches to be terminal
CanFinishManually_MatchesDone(t) ==
  /\ TournamentExists(t)
  /\ tournaments[t].status = "ongoing"
  /\ \A m \in {x \in matches : x.tournamentId = t} :
        m.result \notin {"not_started", "ongoing"}

\* finishTournament (manual): the guards before the write
CanFinishManually(t) ==
  /\ TournamentExists(t)
  /\ tournaments[t].status = "ongoing"

finishTournament(t) ==
  /\ IF CanFinishManually(t)
     THEN /\ tournaments' = RepoUpdateTournament(t, [status |-> "finished"])
          /\ lastOp' = Op("finishTournament", t, TRUE)
     ELSE /\ UNCHANGED tournaments
          /\ lastOp' = Op("finishTournament", t, FALSE)
  /\ UNCHANGED <<callVars, inscVars, now, nextTournamentId, inscriptions, matches,
                 nextMatchId, users, schedVars>>
  /\ RecordFinished

\* calculateTotalRounds: Math.ceil(Math.log2(n)), the least k with 2^k >= n
RECURSIVE CeilLog2From(_, _, _)
CeilLog2From(n, k, pow) ==
  IF pow >= n THEN k ELSE CeilLog2From(n, k + 1, 2 * pow)

CeilLog2(n) == CeilLog2From(n, 0, 1)

\* calculateTotalRounds, one round short: ceil(log2(n)) - 1 or n - 2 rounds
calculateTotalRounds_OneRoundShort(format, participantCount) ==
  IF format = "round_robin" THEN participantCount - 2
  ELSE CeilLog2(participantCount) - 1

calculateTotalRounds(format, participantCount) ==
  IF format = "round_robin" THEN participantCount - 1
  ELSE CeilLog2(participantCount)

\* calculatePoints, doubled to stay in the integers: win 2, draw 1, loss 0,
\* over the terminal matches only
RECURSIVE calculatePoints(_, _)
calculatePoints(userId, ms) ==
  IF ms = {} THEN 0
  ELSE LET m == CHOOSE x \in ms : TRUE
           gain ==
             IF m.result \in {"not_started", "ongoing"} THEN 0
             ELSE IF m.whitePlayerId = userId
                  THEN (IF m.result = "white_wins" THEN 2
                        ELSE IF m.result = "draw" THEN 1 ELSE 0)
             ELSE IF m.blackPlayerId = userId
                  THEN (IF m.result = "black_wins" THEN 2
                        ELSE IF m.result = "draw" THEN 1 ELSE 0)
             ELSE 0
       IN gain + calculatePoints(userId, ms \ {m})

\* getOpponents: everyone the player has a match with, whatever its result
getOpponents(userId, ms) ==
  {m.blackPlayerId : m \in {x \in ms : x.whitePlayerId = userId}}
    \cup {m.whitePlayerId :
            m \in {x \in ms : x.whitePlayerId # userId /\ x.blackPlayerId = userId}}

\* players.sort((a, b) => b.points - a.points): stable, descending by points
RECURSIVE InsertByPoints(_, _, _)
InsertByPoints(u, sorted, ms) ==
  IF sorted = <<>> THEN <<u>>
  ELSE IF calculatePoints(Head(sorted), ms) >= calculatePoints(u, ms)
       THEN <<Head(sorted)>> \o InsertByPoints(u, Tail(sorted), ms)
       ELSE <<u>> \o sorted

RECURSIVE SortByPoints(_, _, _)
SortByPoints(players, sorted, ms) ==
  IF players = <<>> THEN sorted
  ELSE SortByPoints(Tail(players), InsertByPoints(Head(players), sorted, ms), ms)

SetMin(S) == CHOOSE x \in S : \A y \in S : x <= y

\* the opponent, were the loop to have no fallback to players already faced
PickOpponent_FreshOnly(players, i, paired, ms) ==
  LET free == {j \in (i + 1)..Len(players) : players[j] \notin paired}
      fresh == {j \in free : players[j] \notin getOpponents(players[i], ms)}
  IN IF fresh # {} THEN SetMin(fresh) ELSE 0

\* the opponent, were the loop to take the first unpaired player whatever the
\* history
PickOpponent_FirstFree(players, i, paired, ms) ==
  LET free == {j \in (i + 1)..Len(players) : players[j] \notin paired}
  IN IF free # {} THEN SetMin(free) ELSE 0

\* the opponent the pairing loop gives players[i]: the first unpaired later
\* player not yet faced, else the first unpaired later player, else 0 (none)
PickOpponent(players, i, paired, ms) ==
  LET free == {j \in (i + 1)..Len(players) : players[j] \notin paired}
      fresh == {j \in free : players[j] \notin getOpponents(players[i], ms)}
  IN IF fresh # {} THEN SetMin(fresh)
     ELSE IF free # {} THEN SetMin(free)
     ELSE 0

\* the pairing loop of generateMatches: the <<white, black>> pairs, in order
RECURSIVE PairPlayers(_, _, _, _)
PairPlayers(players, i, paired, ms) ==
  IF i > Len(players) THEN <<>>
  ELSE IF players[i] \in paired THEN PairPlayers(players, i + 1, paired, ms)
  ELSE LET j == PickOpponent(players, i, paired, ms)
       IN IF j = 0 THEN PairPlayers(players, i + 1, paired, ms)
          ELSE <<(<<players[i], players[j]>>)>>
                 \o PairPlayers(players, i + 1,
                                paired \cup {players[i], players[j]}, ms)

\* generateMatches: the number of the round to generate
NextRound(t) == IF MatchesOf(t) = {} THEN 1 ELSE MaxRoundOf(MatchesOf(t)) + 1

\* the pending matches, were a match in play to count as played
PendingMatches_NotStartedOnly(t) ==
  {m \in MatchesOf(t) : m.round = NextRound(t) - 1 /\ m.result = "not_started"}

\* generateMatches: the matches of the previous round that are not terminal
PendingMatches(t) ==
  {m \in MatchesOf(t) :
     m.round = NextRound(t) - 1 /\ m.result \in {"not_started", "ongoing"}}

\* generateMatches: the previous round blocks the generation
PreviousRoundPending(t) == PendingMatches(t) # {} /\ NextRound(t) > 1

\* generateMatches: totalRounds as used after the derivation step
EffectiveTotalRounds(t) ==
  IF tournaments[t].totalRounds = 0
  THEN calculateTotalRounds(tournaments[t].tournamentFormat, CountInscriptions(t))
  ELSE tournaments[t].totalRounds

\* the checks before totalRounds, were an odd roster to be refused
GenerateReachesRounds_EvenOnly(t) ==
  /\ TournamentExists(t)
  /\ tournaments[t].status = "ongoing"
  /\ ~ (CountInscriptions(t) < MinParticipantsToPair)
  /\ CountInscriptions(t) % 2 = 0

\* generateMatches: the checks made before totalRounds is derived
GenerateReachesRounds(t) ==
  /\ TournamentExists(t)
  /\ tournaments[t].status = "ongoing"
  /\ ~ (CountInscriptions(t) < MinParticipantsToPair)

\* generateMatches, were it not to compare the round with totalRounds
GenerateAccepted_NoRoundLimit(t) ==
  /\ GenerateReachesRounds(t)
  /\ ~ PreviousRoundPending(t)

\* generateMatches: every precondition holds
GenerateAccepted(t) ==
  /\ GenerateReachesRounds(t)
  /\ ~ (NextRound(t) > EffectiveTotalRounds(t))
  /\ ~ PreviousRoundPending(t)

\* the rows matchRepository.create stores for the pairs, ids in pairing order
NewMatches(t, pairs, round) ==
  {[id |-> nextMatchId + k - 1, tournamentId |-> t,
    whitePlayerId |-> pairs[k][1], blackPlayerId |-> pairs[k][2],
    round |-> round, result |-> "not_started"] : k \in 1..Len(pairs)}

GeneratedPairs(t) ==
  PairPlayers(SortByPoints(InscribedPlayers(t), <<>>, MatchesOf(t)), 1, {},
              MatchesOf(t))

generateMatches(t) ==
  /\ IF GenerateReachesRounds(t)
     THEN tournaments' =
            RepoUpdateTournament(t, [totalRounds |-> EffectiveTotalRounds(t)])
     ELSE UNCHANGED tournaments
  /\ IF GenerateAccepted(t)
     THEN /\ nextMatchId + Len(GeneratedPairs(t)) - 1 <= MaxMatches
          /\ matches' = matches \cup NewMatches(t, GeneratedPairs(t), NextRound(t))
          /\ nextMatchId' = nextMatchId + Len(GeneratedPairs(t))
          /\ lastOp' = Op("generateMatches", t, TRUE)
     ELSE /\ UNCHANGED <<matches, nextMatchId>>
          /\ lastOp' = Op("generateMatches", t, FALSE)
  /\ UNCHANGED <<callVars, inscVars, now, nextTournamentId, inscriptions, users, schedVars>>
  /\ RecordFinished

\* generateMatches when matchRepository.create rejects for the k-th pair: the
\* pairs before it are stored, one by one and outside any transaction, and the
\* rejection leaves the method
generateMatchesStoreFails(t, k) ==
  /\ GenerateAccepted(t)
  /\ k \in 1..Len(GeneratedPairs(t))
  /\ nextMatchId + k - 2 <= MaxMatches
  /\ tournaments' = RepoUpdateTournament(t, [totalRounds |-> EffectiveTotalRounds(t)])
  /\ matches' = matches \cup
       NewMatches(t, SubSeq(GeneratedPairs(t), 1, k - 1), NextRound(t))
  /\ nextMatchId' = nextMatchId + k - 1
  /\ lastOp' = Op("generateMatchesStoreFails", t, FALSE)
  /\ UNCHANGED <<callVars, inscVars, now, nextTournamentId, inscriptions, users, schedVars>>
  /\ RecordFinished

\* ---- InscriptionService ----
\* InscriptionRepository.findById: the positions of the row with that id
InscriptionRows(id) == {i \in 1..Len(inscriptions) : inscriptions[i].id = id}

\* InscriptionRepository.findByUserAndTournament: the positions of the rows of the pair
PairRows(u, t) ==
  {i \in 1..Len(inscriptions) :
     inscriptions[i].userId = u /\ inscriptions[i].tournamentId = t}

\* InscriptionRepository.delete(id) / delete({ userId }): the rows that stay
RECURSIVE InscriptionsKept(_, _)
InscriptionsKept(seq, gone) ==
  IF seq = <<>> THEN <<>>
  ELSE IF gone[Head(seq)]
       THEN InscriptionsKept(Tail(seq), gone)
       ELSE <<Head(seq)>> \o InscriptionsKept(Tail(seq), gone)

InscriptionsWithoutId(id) ==
  LET gone == [r \in {inscriptions[i] : i \in 1..Len(inscriptions)} |-> r.id = id]
  IN InscriptionsKept(inscriptions, gone)

InscriptionsWithoutUser(u) ==
  LET gone == [r \in {inscriptions[i] : i \in 1..Len(inscriptions)} |-> r.userId = u]
  IN InscriptionsKept(inscriptions, gone)

\* createInscription: the checks before the insert
CreateInscriptionAccepted(u, t) ==
  /\ UserExists(u)
  /\ TournamentExists(t)
  /\ tournaments[t].status = "upcoming"
  /\ ~ (tournaments[t].registrationDeadline # NoDate
          /\ now > tournaments[t].registrationDeadline)
  /\ ~ IsInscribed(u, t)
  /\ ~ (tournaments[t].maxParticipants # 0
          /\ CountInscriptions(t) >= tournaments[t].maxParticipants)

FreeInscriptionSlots == {c \in CallIds : inscriptionCalls[c].pc = "idle"}

\* createInscription up to the await of inscriptionRepository.create: the checks
\* read the store, nothing is written yet
createInscriptionRead(c, u, t) ==
  /\ c \in FreeInscriptionSlots /\ \A x \in FreeInscriptionSlots : c <= x
  /\ nextInscriptionId + (MaxCalls - Cardinality(FreeInscriptionSlots)) <= MaxInscriptions
  /\ IF CreateInscriptionAccepted(u, t)
     THEN /\ inscriptionCalls' =
               [inscriptionCalls EXCEPT
                  ![c] = [pc |-> "insert", userId |-> u, tournamentId |-> t]]
          /\ lastOp' = Op("createInscriptionRead", t, TRUE)
     ELSE /\ UNCHANGED inscriptionCalls
          /\ lastOp' = Op("createInscription", t, FALSE)
  /\ UNCHANGED <<callVars, nextInscriptionId, now, dbVars, schedVars>>
  /\ RecordFinished

\* createInscription: inscriptionRepository.create stores the row
createInscriptionInsert(c) ==
  /\ inscriptionCalls[c].pc = "insert"
  /\ inscriptions' =
       Append(inscriptions,
              [id |-> nextInscriptionId, userId |-> inscriptionCalls[c].userId,
               tournamentId |-> inscriptionCalls[c].tournamentId])
  /\ nextInscriptionId' = nextInscriptionId + 1
  /\ inscriptionCalls' = [inscriptionCalls EXCEPT ![c] = IdleInscriptionCall]
  /\ lastOp' = Op("createInscription", inscriptionCalls[c].tournamentId, TRUE)
  /\ UNCHANGED <<callVars, now, tournaments, nextTournamentId, matches, nextMatchId,
                 users, schedVars>>
  /\ RecordFinished

\* deleteInscription: refused once the tournament of the row has left upcoming; a
\* row whose tournament is gone is deleted
DeleteInscriptionAccepted(id) ==
  /\ InscriptionRows(id) # {}
  /\ \A i \in InscriptionRows(id) :
       ~ (TournamentExists(inscriptions[i].tournamentId)
            /\ tournaments[inscriptions[i].tournamentId].status # "upcoming")

deleteInscription(id) ==
  /\ IF DeleteInscriptionAccepted(id)
     THEN /\ inscriptions' = InscriptionsWithoutId(id)
          /\ lastOp' = Op("deleteInscription", id, TRUE)
     ELSE /\ UNCHANGED inscriptions
          /\ lastOp' = Op("deleteInscription", id, FALSE)
  /\ UNCHANGED <<callVars, inscVars, now, tournaments, nextTournamentId, matches,
                 nextMatchId, users, schedVars>>
  /\ RecordFinished

\* cancelInscriptionByUserAndTournament: the checks; the cancellation closes
\* CancelNotice before the start of the tournament
CancelInscriptionAccepted(u, t) ==
  /\ PairRows(u, t) # {}
  /\ TournamentExists(t)
  /\ tournaments[t].status = "upcoming"
  /\ ~ (now > tournaments[t].startDate - CancelNotice)

\* cancelInscriptionByUserAndTournament: deletes the row findOne returned, row i
cancelInscriptionByUserAndTournament(u, t, i) ==
  /\ IF CancelInscriptionAccepted(u, t)
     THEN /\ i \in PairRows(u, t)
          /\ inscriptions' = InscriptionsWithoutId(inscriptions[i].id)
          /\ lastOp' = Op("cancelInscriptionByUserAndTournament", t, TRUE)
     ELSE /\ i = 1
          /\ UNCHANGED inscriptions
          /\ lastOp' = Op("cancelInscriptionByUserAndTournament", t, FALSE)
  /\ UNCHANGED <<callVars, inscVars, now, tournaments, nextTournamentId, matches,
                 nextMatchId, users, schedVars>>
  /\ RecordFinished

\* ---- UserService ----
\* deleteUserSafely: the admins findOne may return, the user itself included
ActiveAdmins == {a \in UserIds : users[a].role = "admin" /\ ~ users[a].isDeleted}

\* deleteUser: deleteUserSafely deletes the inscriptions of the user, hands the
\* tournaments it created to the admin a (0: none is found), marks the user deleted
deleteUser(u, a) ==
  /\ IF UserExists(u)
     THEN /\ IF ActiveAdmins = {} THEN a = 0 ELSE a \in ActiveAdmins
          /\ inscriptions' = InscriptionsWithoutUser(u)
          /\ tournaments' =
               [t \in TournamentIds |->
                  IF tournaments[t].exists /\ tournaments[t].createdBy = u
                  THEN [tournaments[t] EXCEPT !.createdBy = a] ELSE tournaments[t]]
          /\ users' = [users EXCEPT ![u].isDeleted = TRUE]
          /\ lastOp' = Op("deleteUser", u, TRUE)
     ELSE /\ a = 0
          /\ UNCHANGED <<inscriptions, tournaments, users>>
          /\ lastOp' = Op("deleteUser", u, FALSE)
  /\ UNCHANGED <<callVars, inscVars, now, nextTournamentId, matches, nextMatchId,
                 schedVars>>
  /\ RecordFinished

\* ---- EloCalculationService ----
\* getKFactor
getKFactor(playerElo) ==
  IF playerElo < 2100 THEN 40 ELSE IF playerElo < 2400 THEN 32 ELSE 24

\* Math.round(k * (1 - calculateExpectedScore(playerElo, opponentElo))) as a
\* function of d = opponentElo - playerElo, for k = 40, 32 and 24: the value is
\* 0 for d far below 0 and grows by one at each d of the list (computed from
\* 1 / (1 + 10^(d / 400)) in double arithmetic, Math.round rounding halves up)
GainSteps40 ==
  <<-759, -563, -470, -407, -358, -318, -284, -254, -227, -202, -179, -157,
    -136, -117, -98, -79, -61, -43, -26, -8, 9, 27, 44, 62, 80, 99, 118, 137,
    158, 180, 203, 228, 255, 285, 319, 359, 408, 471, 564, 760>>

GainSteps32 ==
  <<-719, -523, -428, -364, -314, -273, -237, -205, -176, -149, -124, -100,
    -77, -54, -32, -10, 11, 33, 55, 78, 101, 125, 150, 177, 206, 238, 274,
    315, 365, 429, 524, 720>>

GainSteps24 ==
  <<-668, -470, -373, -307, -254, -210, -172, -136, -104, -73, -43, -14, 15,
    44, 74, 105, 137, 173, 211, 255, 308, 374, 471, 669>>

GainSteps(k) == IF k = 40 THEN GainSteps40 ELSE IF k = 32 THEN GainSteps32 ELSE GainSteps24

RoundedGain(k, d) == Cardinality({i \in 1..Len(GainSteps(k)) : d >= GainSteps(k)[i]})

\* twice the score of white and of black for a result
WhiteScore2(result) ==
  IF result = "white_wins" THEN 2 ELSE IF result = "draw" THEN 1 ELSE 0
BlackScore2(result) == 2 - WhiteScore2(result)

\* Math.round(k * (score - expected)): k * score is an integer (k is even), so
\* it is k * score - k + Math.round(k * (1 - expected))
EloChange(playerElo, opponentElo, score2) ==
  LET k == getKFactor(playerElo)
  IN (k * score2) \div 2 - k + RoundedGain(k, opponentElo - playerElo)

ClampAtZero(x) == IF x < 0 THEN 0 ELSE x

\* calculateNewElosWithDynamicK: <<player1NewElo, player2NewElo>>
calculateNewElosWithDynamicK(player1Elo, player2Elo, result) ==
  <<ClampAtZero(player1Elo + EloChange(player1Elo, player2Elo, WhiteScore2(result))),
    ClampAtZero(player2Elo + EloChange(player2Elo, player1Elo, BlackScore2(result)))>>

\* UserService.updateUserElo, were it to check the floor of the rating only
UpdateUserEloAccepted_NoCeiling(u, newElo) == UserExists(u) /\ newElo >= 0

\* UserService.updateUserElo throws for a user not found or a rating outside
\* [0, 4000]
UpdateUserEloAccepted(u, newElo) == UserExists(u) /\ newElo >= 0 /\ newElo <= 4000

\* ---- MatchService ----
\* createMatch: the validation of the request; round 0 stands for no round given
CreateMatchAccepted(t, white, black) ==
  /\ TournamentExists(t)
  /\ tournaments[t].status = "ongoing"
  /\ UserExists(white)
  /\ UserExists(black)
  /\ white # black
  /\ IsInscribed(white, t)
  /\ IsInscribed(black, t)

\* createMatch: the round stored
CreateMatchRound(t, round) ==
  IF round = 0 THEN MaxRoundOf(MatchesOf(t)) + 1 ELSE round

createMatch(t, white, black, round) ==
  /\ nextMatchId <= MaxMatches
  /\ IF CreateMatchAccepted(t, white, black)
     THEN /\ matches' = matches \cup
                {[id |-> nextMatchId, tournamentId |-> t, whitePlayerId |-> white,
                  blackPlayerId |-> black, round |-> CreateMatchRound(t, round),
                  result |-> "not_started"]}
          /\ nextMatchId' = nextMatchId + 1
          /\ lastOp' = Op("createMatch", t, TRUE)
     ELSE /\ UNCHANGED <<matches, nextMatchId>>
          /\ lastOp' = Op("createMatch", t, FALSE)
  /\ UNCHANGED <<callVars, inscVars, now, tournaments, nextTournamentId, inscriptions,
                 users, schedVars>>
  /\ RecordFinished

\* startMatch: not_started -> ongoing
startMatch(id) ==
  /\ IF \E m \in matches : m.id = id /\ m.result = "not_started"
     THEN /\ matches' = {IF m.id = id THEN [m EXCEPT !.result = "ongoing"] ELSE m :
                           m \in matches}
          /\ lastOp' = Op("startMatch", id, TRUE)
     ELSE /\ UNCHANGED matches
          /\ lastOp' = Op("startMatch", id, FALSE)
  /\ UNCHANGED <<callVars, inscVars, now, tournaments, nextTournamentId, inscriptions,
                 nextMatchId,
                 users, schedVars>>
  /\ RecordFinished

\* MatchRepository.findById
MatchExists(id) == \E m \in matches : m.id = id
MatchRow(id) == CHOOSE m \in matches : m.id = id

\* MatchRepository.update(id, {result}): writes the column of the row, if any
RepoUpdateMatchResult(id, result) ==
  {IF m.id = id THEN [m EXCEPT !.result = result] ELSE m : m \in matches}

\* isUserTournamentOrganizer: the creator of the tournament or an admin
isUserTournamentOrganizer(userId, t) ==
  \/ tournaments[t].createdBy = userId
  \/ UserExists(userId) /\ users[userId].role = "admin"

\* updateMatchResult up to its write: the match is read and checked; userId 0
\* stands for no userId given
UpdateResultAccepted(id, userId) ==
  /\ MatchExists(id)
  /\ userId # 0 =>
       /\ TournamentExists(MatchRow(id).tournamentId)
       /\ isUserTournamentOrganizer(userId, MatchRow(id).tournamentId)
  /\ MatchRow(id).result \in {"not_started", "ongoing"}

FreeCallSlots == {c \in CallIds : matchCalls[c].pc = "idle"}

\* the updateMatchResult calls in flight on match id
ResultCallsOn(id) ==
  {c \in CallIds : matchCalls[c].op = "updateMatchResult" /\ matchCalls[c].matchId = id}

\* updateMatchResult, from the call to the await of matchRepository.update
updateMatchResultRead(c, id, result, userId) ==
  /\ c \in FreeCallSlots /\ \A x \in FreeCallSlots : c <= x
  /\ id \in MatchIds => eloApplied[id] + Cardinality(ResultCallsOn(id)) < MaxEloWrites
  /\ IF UpdateResultAccepted(id, userId)
     THEN /\ matchCalls' =
               [matchCalls EXCEPT
                  ![c] = [pc |-> "write", op |-> "updateMatchResult", matchId |-> id,
                          result |-> result,
                          whitePlayerId |-> MatchRow(id).whitePlayerId,
                          blackPlayerId |-> MatchRow(id).blackPlayerId]]
          /\ lastOp' = Op("updateMatchResultRead", id, TRUE)
     ELSE /\ UNCHANGED matchCalls
          /\ lastOp' = Op("updateMatchResult", id, FALSE)
  /\ UNCHANGED <<generateCalls, inscVars, now, dbVars, schedVars, eloApplied>>
  /\ RecordFinished

\* updateMatchResult: matchRepository.update(id, {result}) resolves
updateMatchResultWrite(c) ==
  /\ matchCalls[c].pc = "write"
  /\ matchCalls[c].op = "updateMatchResult"
  /\ matches' = RepoUpdateMatchResult(matchCalls[c].matchId, matchCalls[c].result)
  /\ matchCalls' = [matchCalls EXCEPT ![c].pc = "elo"]
  /\ lastOp' = Op("updateMatchResultWrite", matchCalls[c].matchId, TRUE)
  /\ UNCHANGED <<generateCalls, inscVars, now, tournaments, nextTournamentId, inscriptions, nextMatchId, users,
                 schedVars, eloApplied>>
  /\ RecordFinished

\* how the rating block of updateMatchResult can end: every store call resolves,
\* one rejects before the first rating is written, or the write of black's
\* rating rejects after white's was written
EloOutcomes == {"resolves", "rejectsBeforeWrites", "rejectsBetweenWrites"}

\* the ratings the block writes: none when a player is not found or the block
\* is left before the first write, white's only when the second write throws
\* or rejects, both otherwise
UsersAfterElo(white, black, result, outcome) ==
  IF ~ (UserExists(white) /\ UserExists(black)) \/ outcome = "rejectsBeforeWrites"
  THEN users
  ELSE LET new == calculateNewElosWithDynamicK(users[white].elo, users[black].elo,
                                                 result)
           afterWhite == [users EXCEPT ![white].elo = new[1]]
       IN IF ~ UpdateUserEloAccepted(white, new[1]) THEN users
          ELSE IF outcome = "rejectsBetweenWrites"
                    \/ ~ UpdateUserEloAccepted(black, new[2])
               THEN afterWhite
               ELSE [afterWhite EXCEPT ![black].elo = new[2]]

\* the rating block, were a failure in it to unwind the result and fail the call
updateMatchResultElo_Unwinds(c, outcome) ==
  /\ matchCalls[c].pc = "elo"
  /\ users' = UsersAfterElo(matchCalls[c].whitePlayerId, matchCalls[c].blackPlayerId,
                            matchCalls[c].result, outcome)
  /\ eloApplied' =
       [eloApplied EXCEPT
          ![matchCalls[c].matchId] = IF users' # users \/ outcome = "resolves"
                                     THEN @ + 1 ELSE @]
  /\ matchCalls' = [matchCalls EXCEPT ![c] = IdleCall]
  /\ matches' = IF outcome = "resolves" THEN matches
                ELSE RepoUpdateMatchResult(matchCalls[c].matchId, "ongoing")
  /\ lastOp' = Op("updateMatchResult", matchCalls[c].matchId, outcome = "resolves")
  /\ UNCHANGED <<generateCalls, inscVars, now, tournaments, nextTournamentId, inscriptions, nextMatchId,
                 schedVars>>
  /\ RecordFinished

\* updateMatchResult: the rating block, inside its try/catch, and the return
updateMatchResultElo(c, outcome) ==
  /\ matchCalls[c].pc = "elo"
  /\ users' = UsersAfterElo(matchCalls[c].whitePlayerId, matchCalls[c].blackPlayerId,
                            matchCalls[c].result, outcome)
  /\ eloApplied' =
       [eloApplied EXCEPT
          ![matchCalls[c].matchId] = IF users' # users \/ outcome = "resolves"
                                     THEN @ + 1 ELSE @]
  /\ matchCalls' = [matchCalls EXCEPT ![c] = IdleCall]
  /\ lastOp' = Op("updateMatchResult", matchCalls[c].matchId, TRUE)
  /\ UNCHANGED <<generateCalls, inscVars, now, tournaments, nextTournamentId, inscriptions, matches,
                 nextMatchId, schedVars>>
  /\ RecordFinished

\* startMatch, from the call to the await of matchRepository.update
startMatchRead(c, id) ==
  /\ c \in FreeCallSlots /\ \A x \in FreeCallSlots : c <= x
  /\ IF MatchExists(id) /\ MatchRow(id).result = "not_started"
     THEN /\ matchCalls' =
               [matchCalls EXCEPT
                  ![c] = [IdleCall EXCEPT !.pc = "write", !.op = "startMatch",
                                          !.matchId = id, !.result = "ongoing"]]
          /\ lastOp' = Op("startMatchRead", id, TRUE)
     ELSE /\ UNCHANGED matchCalls
          /\ lastOp' = Op("startMatch", id, FALSE)
  /\ UNCHANGED <<generateCalls, inscVars, now, dbVars, schedVars, eloApplied>>
  /\ RecordFinished

\* startMatch: matchRepository.update(id, {result: "ongoing"}) resolves
startMatchWrite(c) ==
  /\ matchCalls[c].pc = "write"
  /\ matchCalls[c].op = "startMatch"
  /\ matches' = RepoUpdateMatchResult(matchCalls[c].matchId, "ongoing")
  /\ matchCalls' = [matchCalls EXCEPT ![c] = IdleCall]
  /\ lastOp' = Op("startMatch", matchCalls[c].matchId, TRUE)
  /\ UNCHANGED <<generateCalls, inscVars, now, tournaments, nextTournamentId, inscriptions, nextMatchId, users,
                 schedVars, eloApplied>>
  /\ RecordFinished

\* getTournamentStandings: the row of one inscription; points are doubled to stay
\* in the integers (win 2, draw 1)
StandingRow_DrawIsFullPoint(playerId, ms) ==
  LET mine == {m \in ms : m.whitePlayerId = playerId \/ m.blackPlayerId = playerId}
      played == {m \in mine : m.result # "not_started" /\ m.result # "ongoing"}
      won == {m \in ms : \/ (m.whitePlayerId = playerId /\ m.result = "white_wins")
                         \/ (m.blackPlayerId = playerId /\ m.result = "black_wins")}
      drawn == {m \in mine : m.result = "draw"}
  IN [playerId |-> playerId,
      points2 |-> 2 * Cardinality({m \in played : m.result = "draw"})
                    + 2 * Cardinality(played \cap won),
      gamesPlayed |-> Cardinality(played),
      wins |-> Cardinality(won),
      draws |-> Cardinality(drawn),
      losses |-> Cardinality(played) - Cardinality(won \cup drawn)]

StandingRow(playerId, ms) ==
  LET mine == {m \in ms : m.whitePlayerId = playerId \/ m.blackPlayerId = playerId}
      played == {m \in mine : m.result # "not_started" /\ m.result # "ongoing"}
      won == {m \in ms : \/ (m.whitePlayerId = playerId /\ m.result = "white_wins")
                         \/ (m.blackPlayerId = playerId /\ m.result = "black_wins")}
      drawn == {m \in mine : m.result = "draw"}
  IN [playerId |-> playerId,
      points2 |-> Cardinality({m \in played : m.result = "draw"})
                    + 2 * Cardinality(played \cap won),
      gamesPlayed |-> Cardinality(played),
      wins |-> Cardinality(won),
      draws |-> Cardinality(drawn),
      losses |-> Cardinality(played) - Cardinality(won \cup drawn)]

\* standings.sort((a, b) => b.points - a.points): stable, descending by points
RECURSIVE InsertStanding(_, _)
InsertStanding(row, sorted) ==
  IF sorted = <<>> THEN <<row>>
  ELSE IF Head(sorted).points2 >= row.points2
       THEN <<Head(sorted)>> \o InsertStanding(row, Tail(sorted))
       ELSE <<row>> \o sorted

RECURSIVE SortStandings(_, _)
SortStandings(rows, sorted) ==
  IF rows = <<>> THEN sorted
  ELSE SortStandings(Tail(rows), InsertStanding(Head(rows), sorted))

\* getTournamentStandings: the rows returned for tournament t
Standings(t) ==
  SortStandings([i \in 1..Len(InscribedPlayers(t)) |->
                   StandingRow(InscribedPlayers(t)[i], MatchesOf(t))], <<>>)

\* getTournamentStandings reads the store and throws for a tournament not found
getTournamentStandings(t) ==
  /\ lastOp' = Op("getTournamentStandings", t, TournamentExists(t))
  /\ UNCHANGED <<callVars, inscVars, now, dbVars, schedVars>>
  /\ RecordFinished

\* ---- TournamentSchedulerService ----
IdleSweep == [pc |-> "idle", now |-> 0, queue |-> <<>>]

\* the entity a sweep holds for a row it read: the columns the sweep uses
Snapshot(t) ==
  [id |-> t, startDate |-> tournaments[t].startDate,
   endDate |-> tournaments[t].endDate, totalRounds |-> tournaments[t].totalRounds]

\* the rows of findByStatus as the list the sweep iterates, in id order
RECURSIVE SnapshotList(_)
SnapshotList(ids) ==
  IF ids = {} THEN <<>>
  ELSE <<Snapshot(SetMin(ids))>> \o SnapshotList(ids \ {SetMin(ids)})

SweepInProgress(s) == sweeps[s].pc # "idle"
FreeSweepSlots == {s \in SweepIds : ~ SweepInProgress(s)}

\* checkTournamentStates up to its first await: now is read, findByStatus called
BeginSweep(s) ==
  sweeps' = [sweeps EXCEPT ![s] = [pc |-> "findUpcoming", now |-> now, queue |-> <<>>]]

\* start(), were it not to look at the interval it holds
start_Rearms ==
  /\ FreeSweepSlots # {}
  /\ BeginSweep(SetMin(FreeSweepSlots))
  /\ intervalId' = 1
  /\ armedIntervals' = armedIntervals + 1
  /\ lastOp' = Op("start", SetMin(FreeSweepSlots), TRUE)
  /\ UNCHANGED <<callVars, inscVars, now, dbVars>>
  /\ RecordFinished

\* start(): returns at once when an interval is held, else launches a sweep
\* (not awaited) and arms the hourly interval
start ==
  /\ IF intervalId # 0
     THEN /\ UNCHANGED schedVars
          /\ lastOp' = Op("start", 0, FALSE)
     ELSE /\ FreeSweepSlots # {}
          /\ BeginSweep(SetMin(FreeSweepSlots))
          /\ intervalId' = 1
          /\ armedIntervals' = armedIntervals + 1
          /\ lastOp' = Op("start", SetMin(FreeSweepSlots), TRUE)
  /\ UNCHANGED <<callVars, inscVars, now, dbVars>>
  /\ RecordFinished

\* stop(): clears the interval it holds
stop ==
  /\ IF intervalId # 0
     THEN /\ intervalId' = 0
          /\ armedIntervals' = armedIntervals - 1
          /\ lastOp' = Op("stop", 0, TRUE)
     ELSE /\ UNCHANGED <<intervalId, armedIntervals>>
          /\ lastOp' = Op("stop", 0, FALSE)
  /\ UNCHANGED <<callVars, inscVars, now, dbVars, sweeps>>
  /\ RecordFinished

\* the period of the interval (one hour) is longer than a sweep lasts: a tick
\* finds the sweep of the tick before it ended
IntervalLongerThanSweep == \A s \in SweepIds : ~ SweepInProgress(s)

\* a tick of an armed interval: the callback launches a sweep
intervalTick ==
  /\ armedIntervals > 0
  /\ IntervalLongerThanSweep
  /\ BeginSweep(SetMin(FreeSweepSlots))
  /\ lastOp' = Op("intervalTick", SetMin(FreeSweepSlots), TRUE)
  /\ UNCHANGED <<callVars, inscVars, now, dbVars, intervalId, armedIntervals>>
  /\ RecordFinished

\* the promotion, were the sweep to ask for the players a manual start asks for
SchedulerShouldStart_WithPlayers(e, sweepNow) ==
  e.startDate <= sweepNow /\ CountInscriptions(e.id) >= MinParticipantsToStart

\* the loop over the upcoming rows: the condition of the promotion
SchedulerShouldStart(e, sweepNow) == e.startDate <= sweepNow

\* shouldFinishTournament without its return on an empty list of matches
shouldFinishTournament_EmptyIsDone(e, sweepNow) ==
  LET ms == MatchesOf(e.id)
  IN /\ \A m \in ms : m.result \notin {"not_started", "ongoing"}
     /\ ~ (e.totalRounds # 0 /\ MaxRoundOf(ms) < e.totalRounds)

\* shouldFinishTournament
shouldFinishTournament(e, sweepNow) ==
  LET ms == MatchesOf(e.id)
  IN /\ ms # {}
     /\ \A m \in ms : m.result \notin {"not_started", "ongoing"}
     /\ ~ (e.totalRounds # 0 /\ MaxRoundOf(ms) < e.totalRounds)

\* where a sweep stands once the upcoming list is exhausted: findByStatus("ongoing")
AfterStart(queue) == IF queue = <<>> THEN "findOngoing" ELSE "startLoop"

\* where a sweep stands once the ongoing list is exhausted: it returns
AfterFinish(queue) == IF queue = <<>> THEN "idle" ELSE "finishLoop"

\* findByStatus("upcoming") resolves
sweepFindUpcoming(s) ==
  /\ sweeps[s].pc = "findUpcoming"
  /\ LET q == SnapshotList(FindByStatus("upcoming"))
     IN sweeps' = [sweeps EXCEPT ![s].queue = q, ![s].pc = AfterStart(q)]
  /\ lastOp' = Op("sweepFindUpcoming", s, TRUE)
  /\ UNCHANGED <<callVars, inscVars, now, dbVars, intervalId, armedIntervals>>
  /\ RecordFinished

\* one iteration over the upcoming list: startTournament(tournament) when due
sweepStartStep(s) ==
  /\ sweeps[s].pc = "startLoop"
  /\ LET e == Head(sweeps[s].queue)
         rest == Tail(sweeps[s].queue)
     IN /\ IF SchedulerShouldStart(e, sweeps[s].now)
           THEN tournaments' = RepoUpdateTournament(e.id, [status |-> "ongoing"])
           ELSE UNCHANGED tournaments
        /\ sweeps' = [sweeps EXCEPT ![s].queue = rest, ![s].pc = AfterStart(rest)]
        /\ lastOp' = SweepOp("sweepStartStep", s, e.id,
                           SchedulerShouldStart(e, sweeps[s].now))
  /\ UNCHANGED <<callVars, inscVars, now, nextTournamentId, inscriptions, matches,
                 nextMatchId, users,
                 intervalId, armedIntervals>>
  /\ RecordFinished

\* findByStatus("ongoing") resolves
sweepFindOngoing(s) ==
  /\ sweeps[s].pc = "findOngoing"
  /\ LET q == SnapshotList(FindByStatus("ongoing"))
     IN sweeps' = [sweeps EXCEPT ![s] =
                     IF q = <<>> THEN IdleSweep
                     ELSE [sweeps[s] EXCEPT !.queue = q, !.pc = "finishLoop"]]
  /\ lastOp' = Op("sweepFindOngoing", s, TRUE)
  /\ UNCHANGED <<callVars, inscVars, now, dbVars, intervalId, armedIntervals>>
  /\ RecordFinished

\* one iteration over the ongoing list: shouldFinishTournament reads the matches
sweepFinishEval(s) ==
  /\ sweeps[s].pc = "finishLoop"
  /\ LET e == Head(sweeps[s].queue)
         rest == Tail(sweeps[s].queue)
     IN /\ sweeps' = [sweeps EXCEPT ![s] =
                        IF shouldFinishTournament(e, sweeps[s].now)
                        THEN [sweeps[s] EXCEPT !.pc = "finishWrite"]
                        ELSE IF rest = <<>> THEN IdleSweep
                        ELSE [sweeps[s] EXCEPT !.queue = rest]]
        /\ lastOp' = SweepOp("sweepFinishEval", s, e.id,
                           shouldFinishTournament(e, sweeps[s].now))
  /\ UNCHANGED <<callVars, inscVars, now, dbVars, intervalId, armedIntervals>>
  /\ RecordFinished

\* finishTournament(tournament): the write of status finished
sweepFinishWrite(s) ==
  /\ sweeps[s].pc = "finishWrite"
  /\ LET e == Head(sweeps[s].queue)
         rest == Tail(sweeps[s].queue)
     IN /\ tournaments' = RepoUpdateTournament(e.id, [status |-> "finished"])
        /\ sweeps' = [sweeps EXCEPT ![s] =
                        IF rest = <<>> THEN IdleSweep
                        ELSE [sweeps[s] EXCEPT !.queue = rest, !.pc = "finishLoop"]]
        /\ lastOp' = SweepOp("sweepFinishWrite", s, e.id, TRUE)
  /\ UNCHANGED <<callVars, inscVars, now, nextTournamentId, inscriptions, matches,
                 nextMatchId, users,
                 intervalId, armedIntervals>>
  /\ RecordFinished

\* the store call a sweep awaits: a read, or the write of a due tournament
AwaitsStore(s) ==
  \/ sweeps[s].pc \in {"findUpcoming", "findOngoing", "finishLoop", "finishWrite"}
  \/ /\ sweeps[s].pc = "startLoop"
     /\ SchedulerShouldStart(Head(sweeps[s].queue), sweeps[s].now)

\* the awaited store call rejects: the catch around the whole sweep logs the
\* error and checkTournamentStates returns
sweepCatch(s) ==
  /\ AwaitsStore(s)
  /\ sweeps' = [sweeps EXCEPT ![s] = IdleSweep]
  /\ lastOp' = SweepOp("sweepCatch", s,
                       IF sweeps[s].queue = <<>> THEN 0 ELSE Head(sweeps[s].queue).id,
                       FALSE)
  /\ UNCHANGED <<callVars, inscVars, now, dbVars, intervalId, armedIntervals>>
  /\ RecordFinished

\* time passes; the clock counts days, and a sweep, shorter than the interval's
\* hour, starts and ends on the same day
advanceClock ==
  /\ now < MaxTime
  /\ IntervalLongerThanSweep
  /\ now' = now + 1
  /\ lastOp' = Op("advanceClock", 0, TRUE)
  /\ UNCHANGED <<callVars, inscVars, dbVars, schedVars>>
  /\ RecordFinished

\* ---- the store the process starts on ----
\* users: every account active, rated 1500; user 1 is the admin
InitUsers ==
  [u \in UserIds |->
     [isDeleted |-> FALSE, role |-> IF u = 1 THEN "admin" ELSE "player", elo |-> 1500]]

\* a roster of tournament t: users 1..k, inscribed in that order
Roster(t, k) == [i \in 1..k |-> [id |-> i, userId |-> i, tournamentId |-> t]]

\* round 1 of tournament t as generateMatches pairs a roster of k players without
\* history (1-2, 3-4, ...), each match with the result results[i]
Round1(t, k, results) ==
  {[id |-> i, tournamentId |-> t, whitePlayerId |-> 2 * i - 1,
    blackPlayerId |-> 2 * i, round |-> 1, result |-> results[i]] :
     i \in 1..(k \div 2)}

\* the tournaments the store holds at start: tournament 1, created by user 2
StoredTournament(status, dates, totalRounds) ==
  [NoTournament EXCEPT !.exists = TRUE, !.status = status, !.startDate = dates[1],
                       !.endDate = dates[2], !.totalRounds = totalRounds,
                       !.createdBy = 2]

\* The process starts on a store that other runs of it have filled: rows holds
\* the stored tournaments (ids 1..n), the scheduler is not started.
InitStore(rows, roster, ms, ratedUsers) ==
  /\ now = 0
  /\ tournaments = rows
  /\ nextTournamentId = Cardinality({t \in TournamentIds : rows[t].exists}) + 1
  /\ inscriptions = roster
  /\ matches = ms
  /\ nextMatchId = Cardinality(ms) + 1
  /\ users = ratedUsers
  /\ intervalId = 0
  /\ armedIntervals = 0
  /\ sweeps = [s \in SweepIds |-> IdleSweep]
  /\ matchCalls = [c \in CallIds |-> IdleCall]
  /\ eloApplied = [id \in MatchIds |-> 0]
  /\ inscriptionCalls = [c \in CallIds |-> IdleInscriptionCall]
  /\ nextInscriptionId = Len(roster) + 1
  /\ generateCalls = [c \in CallIds |-> IdleGenerateCall]
  /\ finishedSoFar = FinishedIn(rows, ms)
  /\ lastOp = Op("init", 0, TRUE)

\* the same store with every user at the initial rating
InitWith(rows, roster, ms) == InitStore(rows, roster, ms, InitUsers)

\* ---- requests ----
\* the days a tournament of the lifecycle runs start on: the first and the last
LifecycleStartDates == {0, MaxTime - 1}

\* bodies of createTournament: one-day tournaments with or without a status, one
\* ending when it starts, one without a name
CreateInputs ==
  {[name |-> 1, location |-> 1, startDate |-> d, endDate |-> d + 1] :
     d \in LifecycleStartDates}
    \cup {[name |-> 1, location |-> 1, startDate |-> d, endDate |-> d + 1,
           status |-> st] : d \in LifecycleStartDates, st \in Status}
    \cup {[name |-> 1, location |-> 1, startDate |-> 1, endDate |-> 1],
          [location |-> 1, startDate |-> 0, endDate |-> 1]}

\* patches of updateTournament that carry a status, alone or with the end date
\* of a tournament starting on day 0
LifecyclePatches ==
  {[status |-> st] : st \in Status}
    \cup {[status |-> st, endDate |-> 1] : st \in Status}

\* one-day tournaments of the statuses given
StoredRows(statuses, startDates, totalRoundsSet) ==
  {StoredTournament(st, <<d, d + 1>>, tr) :
     st \in statuses, d \in startDates, tr \in totalRoundsSet}

\* ---- the lifecycle of tournaments under manual calls ----
\* The store holds tournament 1, of any status, with no player, with one player
\* too few to start, with just enough or with MaxUsers players, and, once started, possibly its
\* first round, not yet played.
Init ==
  \E row \in StoredRows(Status, LifecycleStartDates, {0}), k \in {0, MinParticipantsToStart - 1, MinParticipantsToStart, MaxUsers} :
    \E ms \in {{}, Round1(1, k, [i \in 1..(k \div 2) |-> "not_started"])} :
      /\ ms # {} => row.status # "upcoming"
      /\ InitWith([t \in TournamentIds |-> IF t = 1 THEN row ELSE NoTournament],
                  Roster(1, k), ms)

Next ==
  \/ \E data \in CreateInputs : createTournament(data)
  \/ \E t \in TournamentIds, patch \in LifecyclePatches : updateTournament(t, patch)
  \/ \E t \in TournamentIds, st \in Status : updateTournamentStatus(t, st)
  \/ \E t \in TournamentIds : startTournament(t)
  \/ \E t \in TournamentIds : finishTournament(t)
  \/ \E t \in TournamentIds : deleteTournament(t)
  \/ advanceClock

Spec == Init /\ [][Next]_vars

\* ---- the scheduler, started once ----
\* one match between players 1 and 2 of tournament t, or none
SchedulerMatchSets(t) ==
  {{}} \cup {{[id |-> 1, tournamentId |-> t, whitePlayerId |-> 1, blackPlayerId |-> 2,
               round |-> r, result |-> res]} :
               r \in 1..MaxRound, res \in {"not_started", "white_wins", "draw"}}

\* The store holds MaxTournaments one-day tournaments, upcoming or ongoing; one
\* of them, the owner, has two players and possibly a match between them.
InitScheduler ==
  \E owner \in TournamentIds :
    \E rows \in [TournamentIds -> StoredRows({"upcoming", "ongoing"}, 0..(MaxTime - 1), 0..MaxRound)],
       ms \in SchedulerMatchSets(owner) :
      /\ \A t \in TournamentIds \ {owner} : rows[t].totalRounds = 0
      /\ ms # {} => rows[owner].status = "ongoing"
      /\ InitWith(rows, Roster(owner, 2), ms)

SweepNext ==
  \/ \E s \in SweepIds : sweepFindUpcoming(s)
  \/ \E s \in SweepIds : sweepStartStep(s)
  \/ \E s \in SweepIds : sweepFindOngoing(s)
  \/ \E s \in SweepIds : sweepFinishEval(s)
  \/ \E s \in SweepIds : sweepFinishWrite(s)
  \/ \E s \in SweepIds : sweepCatch(s)

NextScheduler ==
  \/ start
  \/ intervalTick
  \/ SweepNext
  \/ advanceClock

SpecScheduler == InitScheduler /\ [][NextScheduler]_vars

\* ---- the scheduler, started and stopped ----
\* The store holds MaxTournaments tournaments that started on day 0, upcoming or
\* ongoing; tournament 1 has two players and, once ongoing, possibly a match.
InitOverlap ==
  \E rows \in [TournamentIds -> StoredRows({"upcoming", "ongoing"}, {0}, {0})],
     ms \in SchedulerMatchSets(1) :
    /\ ms # {} => rows[1].status = "ongoing"
    /\ InitWith(rows, Roster(1, 2), ms)

NextOverlap ==
  \/ start
  \/ stop
  \/ intervalTick
  \/ SweepNext

SpecOverlap == InitOverlap /\ [][NextOverlap]_vars

\* ---- round generation ----
\* The store holds tournament 1, ongoing, with 2..MaxUsers players and either no
\* match or its first round, each match with any result.
InitPairing ==
  \E row \in StoredRows({"ongoing"}, {0}, 0..MaxRound), k \in MinParticipantsToPair..MaxUsers :
    \E ms \in {{}} \cup {Round1(1, k, results) :
                            results \in [1..(k \div 2) -> MatchResults]} :
      InitWith([t \in TournamentIds |-> IF t = 1 THEN row ELSE NoTournament],
               Roster(1, k), ms)

NextPairing ==
  \/ \E t \in TournamentIds : generateMatches(t)
  \/ \E t \in TournamentIds, k \in 1..(MaxUsers \div 2) : generateMatchesStoreFails(t, k)
  \/ \E id \in 1..MaxMatches : startMatch(id)
  \/ \E t \in TournamentIds : finishTournament(t)

SpecPairing == InitPairing /\ [][NextPairing]_vars

\* ---- results of matches ----
\* The store holds tournament 1, ongoing, created by user 2, with MaxUsers
\* players and the first match of its first round, not started or in play.
InitResults ==
  \E result \in {"not_started", "ongoing"} :
    InitWith([t \in TournamentIds |->
                IF t = 1 THEN StoredTournament("ongoing", <<0, 1>>, 0)
                ELSE NoTournament],
             Roster(1, MaxUsers), Round1(1, MinParticipantsToPair, <<result>>))

\* the callers of updateMatchResult: none given, the admin, the creator of the
\* tournament, a player
ResultCallers == {0, 1, 2, 3}

\* the ids results are submitted for: the stored match and one that is not stored
ResultMatchIds == {1, 2}

NextResults ==
  \/ \E c \in CallIds, id \in ResultMatchIds, result \in TerminalResults,
        userId \in ResultCallers : updateMatchResultRead(c, id, result, userId)
  \/ \E c \in CallIds : updateMatchResultWrite(c)
  \/ \E c \in CallIds, outcome \in EloOutcomes : updateMatchResultElo(c, outcome)
  \/ \E c \in CallIds, id \in ResultMatchIds : startMatchRead(c, id)
  \/ \E c \in CallIds : startMatchWrite(c)

SpecResults == InitResults /\ [][NextResults]_vars

\* ---- edits and deletion of tournaments ----
\* the rosters of the stored tournament: none, one player, two
EditRosterSizes == {0, 1, MinParticipantsToPair}

\* The store holds tournament 1, of any status, running from day 0 to day 1, with
\* a roster and, once it has started with two players, possibly its first round.
InitEdits ==
  \E st \in Status, k \in EditRosterSizes :
    \E ms \in {{}, Round1(1, k, [i \in 1..(k \div 2) |-> "not_started"])} :
      /\ ms # {} => st # "upcoming"
      /\ InitWith([t \in TournamentIds |->
                     IF t = 1 THEN StoredTournament(st, <<0, 1>>, 0) ELSE NoTournament],
                  Roster(1, k), ms)

\* bodies of createTournament: a tournament from day 0 to day 1, upcoming or
\* created ongoing, without a registration deadline or with one on day 0
EditCreateInputs ==
  {[name |-> 1, location |-> 1, startDate |-> 0, endDate |-> 1, status |-> st] :
     st \in {"upcoming", "ongoing"}}
    \cup {[name |-> 1, location |-> 1, startDate |-> 0, endDate |-> 1, status |-> st,
           registrationDeadline |-> 0] : st \in {"upcoming", "ongoing"}}

\* patches of updateTournament: description, endDate, tournamentFormat,
\* maxParticipants and status, alone or description with one of the others
EditPatches ==
  {[description |-> 1], [status |-> "finished"], [description |-> 1, status |-> "finished"]}
    \cup {[endDate |-> d] : d \in Dates}
    \cup {[description |-> 1, endDate |-> d] : d \in Dates}
    \cup {[tournamentFormat |-> f] : f \in {"swiss", "round_robin"}}
    \cup {[description |-> 1, tournamentFormat |-> f] : f \in {"swiss", "round_robin"}}
    \cup {[maxParticipants |-> n] : n \in 0..MinParticipantsToPair}
    \cup {[endDate |-> d, maxParticipants |-> MinParticipantsToPair] : d \in Dates}

NextEdits ==
  \/ \E data \in EditCreateInputs : createTournament(data)
  \/ \E t \in TournamentIds, patch \in EditPatches : updateTournament(t, patch)
  \/ \E t \in TournamentIds : deleteTournament(t)
  \/ \E t \in TournamentIds : deleteTournamentStoreFails(t)

SpecEdits == InitEdits /\ [][NextEdits]_vars

\* ---- inscriptions ----
\* the users who ask for an inscription: the admin and two players
InscriptionUsers == 1..3

\* The store holds tournament 1, starting on day 1: upcoming with no player or
\* one, without a cap or with a cap of one or two players, or ongoing with two
\* players and its first round.
InitInscriptions ==
  \E st \in {"upcoming", "ongoing"}, cap \in 0..MinParticipantsToPair :
    \E k \in IF st = "upcoming" THEN {0, 1} ELSE {MinParticipantsToPair} :
      /\ st = "ongoing" => cap = 0
      /\ InitWith([t \in TournamentIds |->
                     IF t = 1
                     THEN [StoredTournament(st, <<1, MaxTime>>, 0)
                             EXCEPT !.maxParticipants = cap]
                     ELSE NoTournament],
                  Roster(1, k),
                  IF st = "upcoming" THEN {}
                  ELSE Round1(1, k, [i \in 1..(k \div 2) |-> "not_started"]))

NextInscriptions ==
  \/ \E c \in CallIds, u \in InscriptionUsers, t \in TournamentIds :
       createInscriptionRead(c, u, t)
  \/ \E c \in CallIds : createInscriptionInsert(c)
  \/ \E id \in 1..MaxInscriptions : deleteInscription(id)
  \/ \E u \in InscriptionUsers, t \in TournamentIds, i \in 1..MaxInscriptions :
       cancelInscriptionByUserAndTournament(u, t, i)
  \/ \E t \in TournamentIds, n \in 0..MinParticipantsToPair :
       updateTournament(t, [maxParticipants |-> n])
  \/ \E t \in TournamentIds, st \in {"upcoming", "ongoing"} :
       updateTournamentStatus(t, st)
  \/ \E u \in InscriptionUsers, a \in {0} \cup UserIds : deleteUser(u, a)

SpecInscriptions == InitInscriptions /\ [][NextInscriptions]_vars

\* ---- standings ----
\* The store holds tournament 1, ongoing, with 2..MaxUsers players and its first
\* round, each match with any result; matches are started, the next round is
\* generated and the standings are read.
InitStandings ==
  \E k \in MinParticipantsToPair..MaxUsers :
    \E results \in [1..(k \div 2) -> MatchResults] :
      InitWith([t \in TournamentIds |->
                  IF t = 1 THEN StoredTournament("ongoing", <<0, 1>>, MaxRound)
                  ELSE NoTournament],
               Roster(1, k), Round1(1, k, results))

NextStandings ==
  \/ \E t \in TournamentIds : getTournamentStandings(t)
  \/ \E t \in TournamentIds : generateMatches(t)
  \/ \E id \in MatchIds : startMatch(id)

SpecStandings == InitStandings /\ [][NextStandings]_vars

\* ---- a tournament from its start to its second round ----
\* The store holds tournament 1 as createTournament stores it without totalRounds:
\* upcoming, of any format, with MinParticipantsToStart players and no match.
\* Results are submitted one call at a time.
InitEndToEnd ==
  \E f \in Formats :
    InitWith([t \in TournamentIds |->
                IF t = 1
                THEN [StoredTournament("upcoming", <<1, MaxTime>>, 0)
                        EXCEPT !.tournamentFormat = f]
                ELSE NoTournament],
             Roster(1, MinParticipantsToStart), {})

NextEndToEnd ==
  \/ \E t \in TournamentIds : startTournament(t)
  \/ \E t \in TournamentIds : generateMatches(t)
  \/ \E id \in MatchIds, result \in TerminalResults :
       updateMatchResultRead(1, id, result, 0)
  \/ updateMatchResultWrite(1)
  \/ \E outcome \in EloOutcomes : updateMatchResultElo(1, outcome)

SpecEndToEnd == InitEndToEnd /\ [][NextEndToEnd]_vars

\* ---- ratings at the ends of the scale ----
\* the ratings of the two players when the result is submitted: the initial
\* rating and the ratings long runs of results lead to, at and next to the ends
\* of the scale and next to a change of K factor
RatingSamples == {0, 10, 1500, 2395, 3990, 4000}

\* The store holds tournament 1, ongoing, with the match of players 1 and 2, not
\* started; the two players have any of the ratings above.
InitRatings ==
  \E e1 \in RatingSamples, e2 \in RatingSamples :
    InitStore([t \in TournamentIds |->
                 IF t = 1 THEN StoredTournament("ongoing", <<0, 1>>, 0)
                 ELSE NoTournament],
              Roster(1, MaxUsers), Round1(1, MinParticipantsToPair, <<"not_started">>),
              [InitUsers EXCEPT ![1].elo = e1, ![2].elo = e2])

NextRatings ==
  \/ \E c \in CallIds, result \in TerminalResults : updateMatchResultRead(c, 1, result, 0)
  \/ \E c \in CallIds : updateMatchResultWrite(c)
  \/ \E c \in CallIds, outcome \in EloOutcomes : updateMatchResultElo(c, outcome)

SpecRatings == InitRatings /\ [][NextRatings]_vars

\* ---- matches created by hand ----
\* the rounds createMatch is called with: none (0), the first, the second and a
\* negative number
CreateMatchRounds == {0 - 1, 0, 1, MaxRound}

\* The store holds tournament 1, ongoing, with 2..MaxUsers players and no match;
\* player 1 is given opponents by hand: itself and player 2.
InitMatches ==
  \E k \in MinParticipantsToPair..MaxUsers :
    InitWith([t \in TournamentIds |->
                IF t = 1 THEN StoredTournament("ongoing", <<0, 1>>, 0) ELSE NoTournament],
             Roster(1, k), {})

NextMatches ==
  \/ \E t \in TournamentIds, black \in 1..MinParticipantsToPair,
        round \in CreateMatchRounds : createMatch(t, 1, black, round)
  \/ \E t \in TournamentIds : generateMatches(t)

SpecMatches == InitMatches /\ [][NextMatches]_vars

\* ==== properties ====
\* the step just taken was the call op on row t
Called(op, t) == lastOp'.op = op /\ lastOp'.id = t

\* the step just taken was the step op of sweep s
SweepStepped(op, s) == lastOp'.op = op /\ lastOp'.id = s

\* C1: updateTournamentStatus on a tournament whose status is finished or
\* cancelled fails, whatever the target status, and leaves the status as it was.
TerminalStatusIsFinal ==
  [][\A t \in TournamentIds :
       (/\ Called("updateTournamentStatus", t)
        /\ tournaments[t].exists
        /\ tournaments[t].status \in {"finished", "cancelled"})
         => (/\ lastOp'.ok = FALSE
             /\ tournaments'[t].status = tournaments[t].status)]_vars

\* C2: whatever call is made, the status of a tournament changes only along
\* upcoming -> ongoing, ongoing -> finished, upcoming -> cancelled and
\* ongoing -> cancelled.
StatusChangesAreLegal ==
  [][\A t \in TournamentIds :
       (/\ tournaments[t].exists
        /\ tournaments'[t].exists
        /\ tournaments'[t].status # tournaments[t].status)
         => <<tournaments[t].status, tournaments'[t].status>> \in
              {<<"upcoming", "ongoing">>, <<"ongoing", "finished">>,
               <<"upcoming", "cancelled">>, <<"ongoing", "cancelled">>}]_vars

ManualFinishContract ==
  [][\A t \in TournamentIds :
       Called("finishTournament", t) =>
         /\ lastOp'.ok <=> (tournaments[t].exists /\ tournaments[t].status = "ongoing")
         /\ lastOp'.ok =>
              tournaments' = [tournaments EXCEPT ![t].status = "finished"]
         /\ ~ lastOp'.ok => tournaments' = tournaments]_vars

\* C4 happens: a manual finish has succeeded on a tournament that still has a
\* match not started
ManualFinishWithOpenMatch ==
  /\ lastOp.op = "finishTournament"
  /\ lastOp.ok
  /\ tournaments[lastOp.id].status = "finished"
  /\ \E m \in MatchesOf(lastOp.id) : m.result = "not_started"

\* the entity at the head of the list sweep s iterates
Current(s) == Head(sweeps[s].queue)

\* C5: a sweep takes every upcoming tournament into its list, promotes the one
\* it handles to ongoing when its startDate is at or before the sweep's now,
\* whatever its inscription count, and leaves it untouched when its startDate
\* is still ahead.
SweepPromotesDue ==
  [][\A s \in SweepIds :
       /\ SweepStepped("sweepFindUpcoming", s) =>
            /\ {sweeps'[s].queue[i].id : i \in 1..Len(sweeps'[s].queue)}
                 = {t \in TournamentIds :
                      tournaments[t].exists /\ tournaments[t].status = "upcoming"}
            /\ \A i \in 1..Len(sweeps'[s].queue) :
                 sweeps'[s].queue[i].startDate
                   = tournaments[sweeps'[s].queue[i].id].startDate
       /\ SweepStepped("sweepStartStep", s) =>
            /\ Current(s).startDate <= sweeps[s].now =>
                 tournaments' = [tournaments EXCEPT ![Current(s).id].status = "ongoing"]
            /\ Current(s).startDate > sweeps[s].now => tournaments' = tournaments]_vars

\* C5 happens: a sweep has promoted a tournament that has no inscription
SweepPromotedEmptyTournament ==
  /\ lastOp.op = "sweepStartStep"
  /\ lastOp.ok
  /\ tournaments[lastOp.tournament].status = "ongoing"
  /\ CountInscriptions(lastOp.tournament) = 0

\* C6: a sweep finishes every ongoing tournament whose endDate has elapsed,
\* whether or not its matches are terminal and whether or not it has any.
SweepFinishesElapsed ==
  [][\A s \in SweepIds :
       (SweepStepped("sweepFinishEval", s) /\ Current(s).endDate <= sweeps[s].now)
         => sweeps'[s].pc = "finishWrite"]_vars

\* C7: for an ongoing tournament whose endDate has not elapsed, a sweep sets it
\* to finished if and only if all its matches are terminal and totalRounds is
\* unset or the highest round equals totalRounds.
SweepFinishesIffComplete ==
  [][\A s \in SweepIds :
       (SweepStepped("sweepFinishEval", s) /\ Current(s).endDate > sweeps[s].now)
         => (sweeps'[s].pc = "finishWrite"
               <=> (/\ \A m \in MatchesOf(Current(s).id) :
                         m.result \in {"white_wins", "black_wins", "draw"}
                    /\ \/ tournaments[Current(s).id].totalRounds = 0
                       \/ MaxRoundOf(MatchesOf(Current(s).id))
                            = tournaments[Current(s).id].totalRounds))]_vars

\* C7, amended: for an ongoing tournament whose endDate has not elapsed, a sweep
\* decides to finish it, and then writes finished, if and only if it has at
\* least one match, all its matches are terminal and totalRounds is unset or
\* the highest round is at least totalRounds.
SweepFinishesIffPlayedOut ==
  [][\A s \in SweepIds :
       /\ (SweepStepped("sweepFinishEval", s) /\ Current(s).endDate > sweeps[s].now)
            => (sweeps'[s].pc = "finishWrite"
                  <=> (/\ MatchesOf(Current(s).id) # {}
                       /\ \A m \in MatchesOf(Current(s).id) :
                            m.result \in {"white_wins", "black_wins", "draw"}
                       /\ \/ tournaments[Current(s).id].totalRounds = 0
                          \/ MaxRoundOf(MatchesOf(Current(s).id))
                               >= tournaments[Current(s).id].totalRounds))
       /\ SweepStepped("sweepFinishEval", s) => tournaments' = tournaments
       /\ SweepStepped("sweepFinishWrite", s) =>
            tournaments' = [tournaments EXCEPT ![Current(s).id].status = "finished"]]_vars

\* C7 happens: a sweep has finished a tournament whose endDate is still ahead
SweepFinishedBeforeEndDate ==
  /\ lastOp.op = "sweepFinishWrite"
  /\ tournaments[lastOp.tournament].status = "finished"
  /\ tournaments[lastOp.tournament].endDate > now
  /\ MatchesOf(lastOp.tournament) # {}

\* the tournaments a sweep that stops at its current step leaves unhandled
\* although they are due: the later entries of its list, and, when it stops in
\* the promotion loop, the ongoing tournaments it never reads
LeftBehind(s) ==
  {sweeps[s].queue[i].id : i \in
     {j \in 2..Len(sweeps[s].queue) :
        IF sweeps[s].pc = "startLoop"
        THEN sweeps[s].queue[j].startDate <= sweeps[s].now
        ELSE shouldFinishTournament(sweeps[s].queue[j], sweeps[s].now)}}
    \cup {t \in TournamentIds :
            /\ sweeps[s].pc = "startLoop"
            /\ tournaments[t].exists
            /\ tournaments[t].status = "ongoing"
            /\ shouldFinishTournament(Snapshot(t), sweeps[s].now)}

\* C8: a failure while a sweep handles one tournament does not keep the sweep
\* from promoting or finishing the other tournaments that are due: it never
\* ends the sweep while such a tournament is left.
SweepFailureIsIsolated ==
  [][\A s \in SweepIds :
       (/\ SweepStepped("sweepCatch", s)
        /\ sweeps[s].pc \in {"startLoop", "finishLoop", "finishWrite"})
         => (sweeps'[s].pc = "idle" => LeftBehind(s) = {})]_vars

\* C9: at most one sweep is in progress at any time.
AtMostOneSweep == Cardinality({s \in SweepIds : SweepInProgress(s)}) <= 1

\* C10: generateMatches fails and creates no match whenever a match of the
\* round before the one to generate is not_started or ongoing; the generation
\* of round 1, which has no round before it, is never refused on that ground.
PreviousRoundGate ==
  [][\A t \in TournamentIds :
       Called("generateMatches", t) =>
         /\ (\E m \in MatchesOf(t) :
               /\ m.round = MaxRoundOf(MatchesOf(t))
               /\ m.result \in {"not_started", "ongoing"})
              => (lastOp'.ok = FALSE /\ matches' = matches)
         /\ (/\ MatchesOf(t) = {}
             /\ tournaments[t].exists
             /\ tournaments[t].status = "ongoing"
             /\ CountInscriptions(t) >= 2
             /\ tournaments'[t].totalRounds >= 1)
              => (/\ lastOp'.ok
                  /\ \A m \in matches' \ matches : m.tournamentId = t /\ m.round = 1
                  /\ matches' # matches)]_vars

\* C10 happens: generateMatches has been refused on an ongoing tournament with
\* rounds left to play, because a match of its last round is still ongoing
GenerationRefusedByOpenRound ==
  /\ lastOp.op = "generateMatches"
  /\ ~ lastOp.ok
  /\ tournaments[lastOp.id].status = "ongoing"
  /\ MaxRoundOf(MatchesOf(lastOp.id)) < tournaments[lastOp.id].totalRounds
  /\ \E m \in MatchesOf(lastOp.id) :
       m.round = MaxRoundOf(MatchesOf(lastOp.id)) /\ m.result = "ongoing"

\* C11: generateMatches numbers the round it creates (highest existing round of
\* the tournament) + 1, 1 when it has no match; when that number exceeds
\* totalRounds it fails and creates no match, so no match it creates has a
\* round above the tournament's totalRounds.
RoundNumberWithinTotal ==
  [][\A t \in TournamentIds :
       Called("generateMatches", t) =>
         /\ \A m \in matches' \ matches :
              /\ m.tournamentId = t
              /\ m.round = MaxRoundOf(MatchesOf(t)) + 1
              /\ m.round <= tournaments'[t].totalRounds
         /\ (/\ tournaments[t].exists
             /\ tournaments'[t].totalRounds # 0
             /\ MaxRoundOf(MatchesOf(t)) + 1 > tournaments'[t].totalRounds)
              => (lastOp'.ok = FALSE /\ matches' = matches)
         /\ lastOp'.ok => matches' # matches]_vars

\* C11 happens: generateMatches has been refused on an ongoing tournament whose
\* rounds are all generated and played
GenerationRefusedAfterLastRound ==
  /\ lastOp.op = "generateMatches"
  /\ ~ lastOp.ok
  /\ tournaments[lastOp.id].status = "ongoing"
  /\ tournaments[lastOp.id].totalRounds > 0
  /\ MaxRoundOf(MatchesOf(lastOp.id)) >= tournaments[lastOp.id].totalRounds
  /\ \A m \in MatchesOf(lastOp.id) : m.result \in TerminalResults

\* the players of a match
PlayersOf(m) == {m.whitePlayerId, m.blackPlayerId}

\* the players inscribed in tournament t
InscribedSet(t) == {InscribedPlayers(t)[i] : i \in 1..Len(InscribedPlayers(t))}

\* C12: with an even number N of inscribed players, and whatever the history
\* of matches, a generateMatches that succeeds creates exactly N/2 matches and
\* every inscribed player is in exactly one of them.
EvenRosterFullyPaired ==
  [][\A t \in TournamentIds :
       (/\ Called("generateMatches", t)
        /\ lastOp'.ok
        /\ CountInscriptions(t) % 2 = 0)
         => /\ 2 * Cardinality(matches' \ matches) = CountInscriptions(t)
            /\ \A m \in matches' \ matches : m.whitePlayerId # m.blackPlayerId
            /\ \A u \in InscribedSet(t) :
                 Cardinality({m \in matches' \ matches : u \in PlayersOf(m)}) = 1]_vars

\* C12 happens: a second round has been generated for 4 players on top of a
\* played first round, and holds 2 matches
SecondRoundOfFourGenerated ==
  /\ lastOp.op = "generateMatches"
  /\ lastOp.ok
  /\ CountInscriptions(lastOp.id) = 4
  /\ Cardinality({m \in MatchesOf(lastOp.id) : m.round = 2}) = 2
  /\ Cardinality({m \in MatchesOf(lastOp.id) : m.round = 1}) = 2

\* a and b have a match with each other among ms
Met(a, b, ms) == \E m \in ms : PlayersOf(m) = {a, b}

\* C13: generateMatches pairs two players who already met only through the
\* fallback: when the match is created, every inscribed player still unpaired
\* in the round, other than its white player, has already met the white player.
RepeatOnlyByFallback ==
  [][\A t \in TournamentIds :
       Called("generateMatches", t) =>
         \A m \in matches' \ matches :
           Met(m.whitePlayerId, m.blackPlayerId, MatchesOf(t)) =>
             \A u \in InscribedSet(t) :
               (/\ u # m.whitePlayerId
                /\ \A e \in matches' \ matches : e.id < m.id => u \notin PlayersOf(e))
                 => Met(m.whitePlayerId, u, MatchesOf(t))]_vars

\* C13 happens: a round has been generated in which two players who met in an
\* earlier round meet again
RepeatPairingGenerated ==
  /\ lastOp.op = "generateMatches"
  /\ lastOp.ok
  /\ \E m \in MatchesOf(lastOp.id), e \in MatchesOf(lastOp.id) :
       m.round > e.round /\ PlayersOf(m) = PlayersOf(e)

\* C14: round generation is atomic: a generateMatches that fails, be it
\* because storing one of the round's matches fails, leaves none of the round's
\* matches stored.
RoundGenerationAtomic ==
  [][\A t \in TournamentIds :
       (/\ lastOp'.op \in {"generateMatches", "generateMatchesStoreFails"}
        /\ lastOp'.id = t
        /\ lastOp'.ok = FALSE)
         => matches' = matches]_vars

\* C15: once the result of a match is white_wins, black_wins or draw, it never
\* changes again, however updateMatchResult and startMatch calls on the match
\* interleave.
TerminalResultIsFinal ==
  [][\A m \in matches :
       m.result \in {"white_wins", "black_wins", "draw"}
         => \E n \in matches' : n.id = m.id /\ n.result = m.result]_vars

\* C16: the rating changes of a match are written at most once, however
\* updateMatchResult calls on the match interleave.
RatingAppliedOnce == \A id \in MatchIds : eloApplied[id] <= 1

\* C17: when the rating block of updateMatchResult fails, the call still
\* succeeds and the match keeps the terminal result the call wrote: the write
\* stores the submitted result, and the rating block, however it ends, leaves
\* the matches as they are and returns.
ResultSurvivesRatingFailure ==
  [][\A c \in CallIds :
       /\ (matchCalls[c].pc = "write" /\ matchCalls'[c].pc = "elo") =>
            \A m \in matches' :
              m.id = matchCalls[c].matchId => m.result = matchCalls[c].result
       /\ (matchCalls[c].pc = "elo" /\ matchCalls'[c].pc # "elo") =>
            /\ lastOp' = Op("updateMatchResult", matchCalls[c].matchId, TRUE)
            /\ matches' = matches]_vars

\* C17 happens: an updateMatchResult has returned with its result stored and no
\* rating of the match written
RatingFailureSwallowed ==
  /\ lastOp.op = "updateMatchResult"
  /\ lastOp.ok
  /\ \E m \in matches :
       m.id = lastOp.id /\ m.result \in {"white_wins", "black_wins"}
  /\ eloApplied[lastOp.id] = 0
  /\ \A u \in UserIds : users[u].elo = 1500

\* C18: updateTournament on an ongoing tournament fails and leaves the tournament
\* unchanged when the patch has a field other than description and endDate or
\* sets endDate earlier than the stored endDate; a patch with only description
\* and/or an endDate not earlier than the stored one succeeds.
OngoingPatchContract ==
  [][\A t \in TournamentIds, patch \in EditPatches :
       (/\ TournamentExists(t)
        /\ tournaments[t].status = "ongoing"
        /\ updateTournament(t, patch))
         => IF \/ DOMAIN patch \ {"description", "endDate"} # {}
               \/ ("endDate" \in DOMAIN patch /\ patch.endDate < tournaments[t].endDate)
            THEN ~ lastOp'.ok /\ tournaments' = tournaments
            ELSE lastOp'.ok]_vars

\* C19: updateTournament on an upcoming tournament with at least one inscription
\* fails and leaves the tournament unchanged when the patch changes
\* tournamentFormat or sets maxParticipants below the number of inscriptions;
\* with no inscription a patch that changes tournamentFormat succeeds.
UpcomingPatchContract ==
  [][\A t \in TournamentIds, patch \in EditPatches :
       (/\ TournamentExists(t)
        /\ tournaments[t].status = "upcoming"
        /\ updateTournament(t, patch))
         => /\ (/\ CountInscriptions(t) >= 1
                /\ \/ ("tournamentFormat" \in DOMAIN patch
                         /\ patch.tournamentFormat # tournaments[t].tournamentFormat)
                   \/ ("maxParticipants" \in DOMAIN patch
                         /\ patch.maxParticipants < CountInscriptions(t)))
                 => ~ lastOp'.ok /\ tournaments' = tournaments
            /\ (/\ CountInscriptions(t) = 0
                /\ DOMAIN patch = {"tournamentFormat"}
                /\ patch.tournamentFormat # tournaments[t].tournamentFormat)
                 => lastOp'.ok]_vars

\* C20: deleteTournament on an ongoing or finished tournament fails and deletes
\* nothing; on an upcoming or cancelled tournament it removes the tournament
\* with all its inscriptions and matches, leaving none that refers to it, and the
\* other tournaments as they were.  When the store rejects the transaction
\* nothing is deleted.
DeleteContract ==
  [][\A t \in TournamentIds :
       /\ (Called("deleteTournament", t) /\ TournamentExists(t)) =>
            IF tournaments[t].status \in {"ongoing", "finished"}
            THEN /\ ~ lastOp'.ok
                 /\ UNCHANGED <<tournaments, inscriptions, matches>>
            ELSE /\ lastOp'.ok
                 /\ ~ tournaments'[t].exists
                 /\ \A i \in 1..Len(inscriptions') : inscriptions'[i].tournamentId # t
                 /\ \A m \in matches' : m.tournamentId # t
                 /\ \A u \in TournamentIds \ {t} : tournaments'[u] = tournaments[u]
       /\ Called("deleteTournamentStoreFails", t) =>
            UNCHANGED <<tournaments, inscriptions, matches>>]_vars

\* C20 happens: a cancelled tournament that had players and a first round has
\* been deleted, and the store holds no inscription and no match
DeletedWithRosterAndRound ==
  /\ lastOp = Op("deleteTournament", 1, TRUE)
  /\ ~ tournaments[1].exists
  /\ nextMatchId > 1
  /\ inscriptions = <<>>
  /\ matches = {}

\* C21: a tournament whose status has been finished stays in the store, with
\* the matches it had while finished, whatever calls follow.
FinishedIsNeverDeleted ==
  /\ \A t \in finishedSoFar.tournaments : tournaments[t].exists
  /\ \A id \in finishedSoFar.matches : \E m \in matches : m.id = id

\* C22: the store never holds two inscriptions of the same user in the same
\* tournament, however createInscription calls interleave.
OneInscriptionPerPair ==
  \A i, j \in 1..Len(inscriptions) :
    (inscriptions[i].userId = inscriptions[j].userId
       /\ inscriptions[i].tournamentId = inscriptions[j].tournamentId) => i = j

\* C23: a tournament with a maxParticipants cap never has more inscriptions than
\* the cap, however createInscription and updateTournament calls interleave.
CapIsRespected ==
  \A t \in TournamentIds :
    (tournaments[t].exists /\ tournaments[t].maxParticipants # 0)
      => CountInscriptions(t) <= tournaments[t].maxParticipants

\* C24: both players of every stored match hold an inscription in the tournament
\* of the match.
PlayersAreInscribed ==
  \A m \in matches :
    IsInscribed(m.whitePlayerId, m.tournamentId)
      /\ IsInscribed(m.blackPlayerId, m.tournamentId)

\* C25: every stored tournament starts before it ends and, when it has a
\* registration deadline, the deadline is before its start.
DatesAreOrdered ==
  \A t \in TournamentIds :
    tournaments[t].exists =>
      /\ tournaments[t].startDate < tournaments[t].endDate
      /\ tournaments[t].registrationDeadline # NoDate
           => tournaments[t].registrationDeadline < tournaments[t].startDate

\* the terminal matches of ms the player won, drew, lost
WonBy(p, ms) ==
  {m \in ms : \/ (m.whitePlayerId = p /\ m.result = "white_wins")
              \/ (m.blackPlayerId = p /\ m.result = "black_wins")}
DrawnBy(p, ms) == {m \in ms : p \in PlayersOf(m) /\ m.result = "draw"}
LostBy(p, ms) ==
  {m \in ms : \/ (m.whitePlayerId = p /\ m.result = "black_wins")
              \/ (m.blackPlayerId = p /\ m.result = "white_wins")}

\* C26: getTournamentStandings returns one row per inscribed player, with
\* points = wins + draws / 2 (as the pairing counts them) and gamesPlayed =
\* wins + draws + losses over the terminal matches of the tournament, in order
\* of non-increasing points; when the only match of the tournament is a draw,
\* its two players have half a point and one game.  Points are doubled.
StandingsAreCorrect ==
  [][\A t \in TournamentIds :
       (Called("getTournamentStandings", t) /\ lastOp'.ok) =>
         LET rows == Standings(t)
             ms == MatchesOf(t)
         IN /\ Len(rows) = Cardinality(InscribedSet(t))
            /\ \A p \in InscribedSet(t) : \E i \in 1..Len(rows) : rows[i].playerId = p
            /\ \A i \in 1..Len(rows) :
                 LET p == rows[i].playerId
                 IN /\ p \in InscribedSet(t)
                    /\ rows[i].wins = Cardinality(WonBy(p, ms))
                    /\ rows[i].draws = Cardinality(DrawnBy(p, ms))
                    /\ rows[i].losses = Cardinality(LostBy(p, ms))
                    /\ rows[i].points2 = 2 * rows[i].wins + rows[i].draws
                    /\ rows[i].points2 = calculatePoints(p, ms)
                    /\ rows[i].gamesPlayed =
                         rows[i].wins + rows[i].draws + rows[i].losses
            /\ \A i, j \in 1..Len(rows) : i < j => rows[i].points2 >= rows[j].points2
            /\ \A m \in ms :
                 (ms = {m} /\ m.result = "draw") =>
                   \A i \in 1..Len(rows) :
                     rows[i].playerId \in PlayersOf(m) =>
                       rows[i].points2 = 1 /\ rows[i].gamesPlayed = 1]_vars

\* C26 happens: the standings of a tournament whose only match is a draw have
\* been read, and its two players are listed with half a point and one game
StandingsOfSingleDraw ==
  /\ lastOp = Op("getTournamentStandings", 1, TRUE)
  /\ \E m \in matches : matches = {m} /\ m.result = "draw" /\ m.tournamentId = 1
  /\ \A p \in {1, 2} :
       \E i \in 1..Len(Standings(1)) :
         /\ Standings(1)[i].playerId = p
         /\ Standings(1)[i].points2 = 1
         /\ Standings(1)[i].gamesPlayed = 1

\* the matches of round r of tournament t
RoundOf(t, r) == {m \in MatchesOf(t) : m.round = r}

\* C27: for a tournament created upcoming with 4 inscriptions, startTournament
\* succeeds; generateMatches then creates exactly 2 matches, of round 1; once
\* white_wins has been submitted on both, generateMatches creates exactly 2
\* matches of round 2, none between two players who met in round 1.
EndToEndScenario ==
  [][\A t \in TournamentIds :
       /\ (/\ Called("startTournament", t)
           /\ TournamentExists(t) /\ tournaments[t].status = "upcoming"
           /\ CountInscriptions(t) = 4)
            => lastOp'.ok /\ tournaments'[t].status = "ongoing"
       /\ (/\ Called("generateMatches", t)
           /\ TournamentExists(t) /\ tournaments[t].status = "ongoing"
           /\ CountInscriptions(t) = 4 /\ MatchesOf(t) = {})
            => /\ lastOp'.ok
               /\ Cardinality(matches') = 2
               /\ \A m \in matches' : m.tournamentId = t /\ m.round = 1
       /\ (/\ Called("generateMatches", t)
           /\ TournamentExists(t) /\ tournaments[t].status = "ongoing"
           /\ CountInscriptions(t) = 4
           /\ Cardinality(MatchesOf(t)) = 2
           /\ \A m \in MatchesOf(t) : m.round = 1 /\ m.result = "white_wins")
            => /\ lastOp'.ok
               /\ matches \subseteq matches'
               /\ Cardinality(matches' \ matches) = 2
               /\ \A n \in matches' \ matches :
                    /\ n.tournamentId = t /\ n.round = 2
                    /\ ~ Met(n.whitePlayerId, n.blackPlayerId, matches)]_vars

\* C27 happens: the tournament was started, both matches of round 1 were won by
\* white through updateMatchResult, and round 2 has just been generated
SecondRoundAfterWhiteWins ==
  /\ lastOp = Op("generateMatches", 1, TRUE)
  /\ tournaments[1].status = "ongoing"
  /\ Cardinality(RoundOf(1, 1)) = 2 /\ Cardinality(RoundOf(1, 2)) = 2
  /\ \A m \in RoundOf(1, 1) : m.result = "white_wins" /\ eloApplied[m.id] = 1

\* C28: the ratings calculateNewElosWithDynamicK computes are never negative,
\* and the rating stored for every user stays within 0..4000 after any sequence
\* of submitted results.
RatingsStayAdmissible ==
  /\ \A u \in UserIds : users[u].elo >= 0 /\ users[u].elo <= 4000
  /\ \A a \in UserIds, b \in UserIds, result \in TerminalResults :
       LET new == calculateNewElosWithDynamicK(users[a].elo, users[b].elo, result)
       IN new[1] >= 0 /\ new[2] >= 0

\* C28 happens: black, rated 10 or less, lost match 1 to a player of its level
\* and the rating written for it is 0, not the negative sum
RatingStoppedAtZero ==
  /\ lastOp = Op("updateMatchResult", 1, TRUE)
  /\ eloApplied[1] = 1
  /\ \E m \in matches : m.id = 1 /\ m.result = "white_wins"
  /\ users[1].elo \in {20, 30}
  /\ users[2].elo = 0

\* C29: a generateMatches call that fails a precondition leaves the store as it
\* was: no match is created and no column of a tournament, totalRounds
\* included, is changed.
RefusedGenerationChangesNothing ==
  [][\A t \in TournamentIds :
       (Called("generateMatches", t) /\ ~ lastOp'.ok)
         => /\ matches' = matches
            /\ tournaments' = tournaments]_vars

\* C30: updateTournament never changes the status of a tournament, whatever the
\* patch holds.
UpdateKeepsStatus ==
  [][\A t \in TournamentIds :
       Called("updateTournament", t)
         => tournaments'[t].status = tournaments[t].status]_vars

\* C31: a tournament createTournament has just stored has the status upcoming,
\* whatever the request body holds.
CreatedUpcoming ==
  [][\A t \in TournamentIds :
       (Called("createTournament", t) /\ lastOp'.ok)
         => tournaments'[t].exists /\ tournaments'[t].status = "upcoming"]_vars

\* C32: every stored match has a round number of 1 or more, whether
\* generateMatches or createMatch, with or without a round, created it.
RoundsArePositive == \A m \in matches : m.round >= 1

\* ---- deleting accounts ----
\* The store holds two upcoming tournaments of any creators, the accounts have
\* any roles; accounts are deleted.
InitUsersSpec ==
  \E roles \in [UserIds -> {"admin", "player"}], creators \in [TournamentIds -> UserIds] :
    InitStore([t \in TournamentIds |->
                 [StoredTournament("upcoming", <<1, MaxTime>>, 0)
                    EXCEPT !.createdBy = creators[t]]],
              Roster(1, MinParticipantsToPair), {},
              [u \in UserIds |-> [InitUsers[u] EXCEPT !.role = roles[u]]])

NextUsers == \E u \in UserIds, a \in {0} \cup UserIds : deleteUser(u, a)

SpecUsers == InitUsersSpec /\ [][NextUsers]_vars

\* C33: once deleteUser(U) has succeeded no tournament has U as its creator
\* (they went to a remaining admin, or to nobody), and the record of U is kept,
\* marked deleted.
DeletedUserOwnsNothing ==
  [][\A u \in UserIds :
       (Called("deleteUser", u) /\ lastOp'.ok)
         => /\ users'[u].isDeleted
            /\ \A t \in TournamentIds :
                 tournaments'[t].exists => tournaments'[t].createdBy # u]_vars

\* ---- rolePermissions, AuthMiddleware, TournamentController ----
\* PLAYER_PERMISSIONS
PLAYER_PERMISSIONS ==
  {"view_tournaments", "join_tournaments", "view_matches", "view_rankings",
   "view_own_profile", "edit_own_profile", "create_tournaments",
   "edit_own_tournaments", "delete_own_tournaments",
   "manage_own_tournament_inscriptions", "create_own_matches",
   "update_own_match_results", "publish_own_results",
   "view_own_tournament_analytics"}

\* ADMIN_PERMISSIONS
ADMIN_PERMISSIONS ==
  PLAYER_PERMISSIONS
    \cup {"manage_users", "change_user_roles", "edit_any_tournament",
          "delete_any_tournament", "manage_any_tournament_inscriptions",
          "create_any_matches", "update_any_match_results", "view_system_analytics",
          "manage_system_settings", "access_admin_panel"}

\* RolePermissionService.hasPermission
hasPermission(userRole, permission) ==
  permission \in (IF userRole = "admin" THEN ADMIN_PERMISSIONS ELSE PLAYER_PERMISSIONS)

\* RolePermissionService.hasAnyPermission
hasAnyPermission(userRole, permissions) ==
  \E permission \in permissions : hasPermission(userRole, permission)

\* RolePermissionService.canPerformTournamentAction, for the actions edit and delete
canPerformTournamentAction(userRole, userId, tournamentCreatorId, action) ==
  \/ userRole = "admin"
  \/ /\ userId = tournamentCreatorId
     /\ hasPermission(userRole,
                      IF action = "edit" THEN "edit_own_tournaments"
                      ELSE "delete_own_tournaments")

\* AuthMiddleware.authenticate: the bearer of the token is a stored, active user
authenticate(u) == UserExists(u)

\* AuthMiddleware.requireAnyPermission behind authenticate
requireAnyPermission(u, permissions) ==
  authenticate(u) /\ hasAnyPermission(users[u].role, permissions)

\* a request answered 401, 403 or 404 before the service is called
RequestRefused(t) ==
  /\ lastOp' = Op("refused", t, FALSE)
  /\ UNCHANGED <<callVars, inscVars, now, tournaments, nextTournamentId, inscriptions,
                 matches, nextMatchId, users, schedVars>>
  /\ RecordFinished

\* PUT /:id -> TournamentController.updateTournament
TournamentController_updateTournament(u, t, patch) ==
  IF /\ requireAnyPermission(u, {"edit_own_tournaments", "edit_any_tournament"})
     /\ TournamentExists(t)
     /\ canPerformTournamentAction(users[u].role, u, tournaments[t].createdBy, "edit")
  THEN updateTournament(t, patch)
  ELSE RequestRefused(t)

\* DELETE /:id -> TournamentController.deleteTournament
TournamentController_deleteTournament(u, t) ==
  IF /\ requireAnyPermission(u, {"delete_own_tournaments", "delete_any_tournament"})
     /\ TournamentExists(t)
     /\ canPerformTournamentAction(users[u].role, u, tournaments[t].createdBy, "delete")
  THEN deleteTournament(t)
  ELSE RequestRefused(t)

\* PATCH /:id/status -> TournamentController.updateTournamentStatus
TournamentController_updateTournamentStatus(u, t, status) ==
  IF requireAnyPermission(u, {"edit_own_tournaments", "edit_any_tournament"})
  THEN updateTournamentStatus(t, status)
  ELSE RequestRefused(t)

\* POST /:id/generate-matches -> TournamentController.generateMatches
TournamentController_generateMatches(u, t) ==
  IF /\ authenticate(u)
     /\ TournamentExists(t)
     /\ (users[u].role = "admin" \/ tournaments[t].createdBy = u)
  THEN generateMatches(t)
  ELSE RequestRefused(t)

\* POST /:id/start -> TournamentController.startTournament
TournamentController_startTournament(u, t) ==
  IF requireAnyPermission(u, {"edit_own_tournaments", "edit_any_tournament"})
  THEN startTournament(t)
  ELSE RequestRefused(t)

\* POST /:id/finish -> TournamentController.finishTournament
TournamentController_finishTournament(u, t) ==
  IF requireAnyPermission(u, {"edit_own_tournaments", "edit_any_tournament"})
  THEN finishTournament(t)
  ELSE RequestRefused(t)

\* ---- the tournament endpoints ----
\* who sends requests: the admin, the creator of the tournament, another player
Requesters == 1..3

\* bodies of PUT /:id
EndpointPatches == {[description |-> 1], [endDate |-> MaxTime]}

\* The store holds tournament 1 of creator 2, upcoming or ongoing, with four
\* players; the three requesters call the mutating endpoints.
InitEndpoints ==
  \E st \in {"upcoming", "ongoing"} :
    InitWith([t \in TournamentIds |->
                IF t = 1 THEN StoredTournament(st, <<0, 1>>, 0) ELSE NoTournament],
             Roster(1, MinParticipantsToStart), {})

NextEndpoints ==
  \/ \E u \in Requesters, t \in TournamentIds, patch \in EndpointPatches :
       TournamentController_updateTournament(u, t, patch)
  \/ \E u \in Requesters, t \in TournamentIds : TournamentController_deleteTournament(u, t)
  \/ \E u \in Requesters, t \in TournamentIds, status \in Status :
       TournamentController_updateTournamentStatus(u, t, status)
  \/ \E u \in Requesters, t \in TournamentIds : TournamentController_generateMatches(u, t)
  \/ \E u \in Requesters, t \in TournamentIds : TournamentController_startTournament(u, t)
  \/ \E u \in Requesters, t \in TournamentIds : TournamentController_finishTournament(u, t)

SpecEndpoints == InitEndpoints /\ [][NextEndpoints]_vars

\* the user u is neither the creator of the stored tournament t nor an admin
IsStranger(u, t) ==
  TournamentExists(t) /\ users[u].role # "admin" /\ tournaments[t].createdBy # u

\* a request of u on t to one of the mutating endpoints
MutatingRequest(u, t) ==
  \/ \E patch \in EndpointPatches : TournamentController_updateTournament(u, t, patch)
  \/ TournamentController_deleteTournament(u, t)
  \/ \E status \in Status : TournamentController_updateTournamentStatus(u, t, status)
  \/ TournamentController_generateMatches(u, t)
  \/ TournamentController_startTournament(u, t)
  \/ TournamentController_finishTournament(u, t)

\* C34: a request to a mutating endpoint (update, delete, status, start, finish,
\* generate-matches) by a user who is neither the creator of the tournament nor
\* an admin is refused before the service runs: the tournament and its matches
\* are as they were.
StrangerChangesNothing ==
  [][\A u \in Requesters, t \in TournamentIds :
       (IsStranger(u, t) /\ MutatingRequest(u, t))
         => /\ lastOp'.op = "refused"
            /\ tournaments'[t] = tournaments[t]
            /\ matches' = matches]_vars

\* ---- pairing after rounds entered by hand ----
\* a round 1 the organizer entered with createMatch, results in: match i opposes
\* pairs[i] and ended with results[i]
EnteredRound(t, pairs, results) ==
  {[id |-> i, tournamentId |-> t, whitePlayerId |-> pairs[i][1],
    blackPlayerId |-> pairs[i][2], round |-> 1, result |-> results[i]] :
     i \in 1..Len(pairs)}

\* the pairs createMatch accepts among the first k users
DistinctPairs(k) == {p \in (1..k) \X (1..k) : p[1] # p[2]}

\* The store holds tournament 1, ongoing, with MinParticipantsToStart players and
\* a first round of one or two matches entered with createMatch, all finished;
\* the next round is generated.
InitRematch ==
  \E n \in 1..MinParticipantsToPair :
    \E pairs \in [1..n -> DistinctPairs(MinParticipantsToStart)],
       results \in [1..n -> TerminalResults] :
      InitWith([t \in TournamentIds |->
                  IF t = 1 THEN StoredTournament("ongoing", <<0, 1>>, 0)
                  ELSE NoTournament],
               Roster(1, MinParticipantsToStart), EnteredRound(1, pairs, results))

NextRematch == \E t \in TournamentIds : generateMatches(t)

SpecRematch == InitRematch /\ [][NextRematch]_vars

\* the players u and v of tournament t have a match together
HaveMet(u, v, t) == v \in getOpponents(u, MatchesOf(t))

\* the roster of t admits a complete pairing (everyone paired, but one player of
\* an odd roster) in which no two opponents have met
FreshPairingExists(t) ==
  LET roster == {InscribedPlayers(t)[i] : i \in 1..CountInscriptions(t)}
      fresh == {pair \in SUBSET roster :
                  /\ Cardinality(pair) = 2
                  /\ \A u \in pair, v \in pair : u # v => ~ HaveMet(u, v, t)}
  IN \E pairing \in SUBSET fresh :
       /\ Cardinality(pairing) = Cardinality(roster) \div 2
       /\ \A p \in pairing, q \in pairing : p # q => p \cap q = {}

\* C35: when the roster admits a complete pairing of players who have not met,
\* the round generateMatches stores holds no rematch.
NoAvoidableRematch ==
  [][\A t \in TournamentIds :
       (Called("generateMatches", t) /\ lastOp'.ok /\ FreshPairingExists(t))
         => \A m \in matches' \ matches :
              ~ HaveMet(m.whitePlayerId, m.blackPlayerId, t)]_vars

\* ---- generateMatches between its awaits ----
\* the slots of generateCalls with no call in them
FreeGenerateSlots == {c \in CallIds : generateCalls[c].pc = "idle"}

\* generateMatches from the call to the read of the matches: the checks, the
\* derivation of totalRounds, the round and the pairing, which depend on
\* nothing read later
generateMatchesRead(c, t) ==
  /\ c \in FreeGenerateSlots /\ \A x \in FreeGenerateSlots : c <= x
  /\ IF GenerateReachesRounds(t)
     THEN tournaments' =
            RepoUpdateTournament(t, [totalRounds |-> EffectiveTotalRounds(t)])
     ELSE UNCHANGED tournaments
  /\ IF GenerateAccepted(t)
     THEN /\ generateCalls' =
               [generateCalls EXCEPT
                  ![c] = [pc |-> "create", tournamentId |-> t, round |-> NextRound(t),
                          pairs |-> GeneratedPairs(t)]]
          /\ lastOp' = Op("generateMatchesRead", t, TRUE)
     ELSE /\ UNCHANGED generateCalls
          /\ lastOp' = Op("generateMatches", t, FALSE)
  /\ UNCHANGED <<matchCalls, eloApplied, inscVars, now, nextTournamentId, inscriptions,
                 matches, nextMatchId, users, schedVars>>
  /\ RecordFinished

\* generateMatches: the matchRepository.create calls of the pairing loop resolve
\* (taken together: what they store was fixed by the reads) and the call returns
generateMatchesCreate(c) ==
  /\ generateCalls[c].pc = "create"
  /\ nextMatchId + Len(generateCalls[c].pairs) - 1 <= MaxMatches
  /\ matches' = matches \cup NewMatches(generateCalls[c].tournamentId,
                                        generateCalls[c].pairs, generateCalls[c].round)
  /\ nextMatchId' = nextMatchId + Len(generateCalls[c].pairs)
  /\ generateCalls' = [generateCalls EXCEPT ![c] = IdleGenerateCall]
  /\ lastOp' = Op("generateMatches", generateCalls[c].tournamentId, TRUE)
  /\ UNCHANGED <<matchCalls, eloApplied, inscVars, now, tournaments, nextTournamentId,
                 inscriptions, users, schedVars>>
  /\ RecordFinished

\* The store holds tournament 1, ongoing, with 2..MaxUsers players and no match;
\* rounds are generated by calls that may overlap, matches are started.
InitGenerate ==
  \E k \in MinParticipantsToPair..MaxUsers :
    InitWith([t \in TournamentIds |->
                IF t = 1 THEN StoredTournament("ongoing", <<0, 1>>, 0) ELSE NoTournament],
             Roster(1, k), {})

NextGenerate ==
  \/ \E c \in CallIds, t \in TournamentIds : generateMatchesRead(c, t)
  \/ \E c \in CallIds : generateMatchesCreate(c)
  \/ \E id \in 1..MaxMatches : startMatch(id)

SpecGenerate == InitGenerate /\ [][NextGenerate]_vars

\* C36: with generateMatches the only source of matches, no player is in two
\* matches of one round of a tournament (so no round is generated twice), calls
\* that overlap included.
OneMatchPerPlayerAndRound ==
  \A m1 \in matches, m2 \in matches :
    (m1 # m2 /\ m1.tournamentId = m2.tournamentId /\ m1.round = m2.round)
      => PlayersOf(m1) \cap PlayersOf(m2) = {}

\* ---- sweeps and manual status changes ----
\* The store is that of the started-and-stopped scheduler; the scheduler is
\* started and, while its sweeps run, organizers set statuses by hand.
NextManual ==
  \/ start
  \/ intervalTick
  \/ SweepNext
  \/ \E t \in TournamentIds, st \in Status \ {"upcoming"} : updateTournamentStatus(t, st)

SpecManual == InitOverlap /\ [][NextManual]_vars

\* C37: a write of a sweep changes the status of a tournament only if the
\* tournament still has the status the sweep read (upcoming for a start,
\* ongoing for a finish): a status set by hand during the sweep is not
\* overwritten.
SweepRespectsManualStatus ==
  [][\A t \in TournamentIds :
       (/\ lastOp'.op \in {"sweepStartStep", "sweepFinishWrite"}
        /\ lastOp'.tournament = t
        /\ tournaments'[t].status # tournaments[t].status)
         => tournaments[t].status =
              (IF lastOp'.op = "sweepStartStep" THEN "upcoming" ELSE "ongoing")]_vars

\* the sweeps a step has launched
SweepsLaunched == {s \in SweepIds : ~ SweepInProgress(s) /\ sweeps'[s].pc # "idle"}

\* C38: the scheduler holds at most one armed interval. start() while running
\* arms nothing and launches no sweep; start() when stopped launches one sweep
\* and arms one interval; stop() disarms it, and an interval ticks only between
\* a start() and the next stop().
OneArmedInterval ==
  [][/\ armedIntervals' = (IF intervalId' # 0 THEN 1 ELSE 0)
     /\ (lastOp'.op = "start" /\ intervalId # 0) => UNCHANGED schedVars
     /\ (lastOp'.op = "start" /\ intervalId = 0)
          => /\ Cardinality(SweepsLaunched) = 1
             /\ armedIntervals' = armedIntervals + 1
             /\ intervalId' # 0
     /\ lastOp'.op = "stop" => (intervalId' = 0 /\ SweepsLaunched = {})
     /\ lastOp'.op = "intervalTick" => intervalId # 0]_vars

\* C38 happens: start() has been called on the running scheduler and has
\* returned, one interval armed as before
StartRefusedWhileRunning ==
  /\ lastOp.op = "start"
  /\ ~ lastOp.ok
  /\ intervalId # 0
  /\ armedIntervals = 1

\* C39: with an odd number N >= 3 of inscribed players generateMatches is not
\* refused for the roster (the first round of an ongoing tournament is
\* generated), and a generation that succeeds creates exactly (N - 1) / 2
\* matches between two distinct inscribed players, every player in at most one
\* of them and exactly one player in none, who gets neither a match nor a point.
OddRosterLeavesOneOut ==
  [][\A t \in TournamentIds :
       (/\ Called("generateMatches", t)
        /\ CountInscriptions(t) % 2 = 1
        /\ CountInscriptions(t) >= 3)
         => /\ (TournamentExists(t) /\ tournaments[t].status = "ongoing"
                  /\ MatchesOf(t) = {}) => lastOp'.ok
            /\ lastOp'.ok =>
                 /\ 2 * Cardinality(matches' \ matches) = CountInscriptions(t) - 1
                 /\ \A m \in matches' \ matches :
                      /\ m.whitePlayerId # m.blackPlayerId
                      /\ PlayersOf(m) \subseteq InscribedSet(t)
                      /\ m.result = "not_started"
                 /\ \A u \in InscribedSet(t) :
                      Cardinality({m \in matches' \ matches : u \in PlayersOf(m)}) <= 1
                 /\ Cardinality({u \in InscribedSet(t) :
                                   \A m \in matches' \ matches : u \notin PlayersOf(m)}) = 1
                 /\ \A u \in InscribedSet(t) :
                      calculatePoints(u, matches') = calculatePoints(u, matches)]_vars

\* C39 happens: a second round has been generated for 3 players on top of a
\* played first round, and holds 1 match
SecondRoundOfThreeGenerated ==
  /\ lastOp.op = "generateMatches"
  /\ lastOp.ok
  /\ CountInscriptions(lastOp.id) = 3
  /\ Cardinality({m \in MatchesOf(lastOp.id) : m.round = 2}) = 1
  /\ Cardinality({m \in MatchesOf(lastOp.id) : m.round = 1}) = 1

====
